---- MODULE Spec2Model ----
(***************************************************************************)
(* A model of the @goobits/blog content pipeline: the post cache of        *)
(* getAllPosts, the taxonomy filters, the RSS serializer and the route     *)
(* handlers that sit on top of them.                                       *)
(*                                                                         *)
(* JavaScript strings are modelled as sequences of one-character strings,  *)
(* so that slugify, escapeXml, split and the routing regular expressions   *)
(* are computed character by character.  An optional value (a field that   *)
(* may be undefined) is a sequence of length 0 or 1.                       *)
(***************************************************************************)
EXTENDS Integers, Sequences, FiniteSets, TLC

\* ------------------------------------------------------------------------
\* Strings
\* ------------------------------------------------------------------------

UpperChars == <<"A","B","C","D","E","F","G","H","I","J","K","L","M",
                "N","O","P","Q","R","S","T","U","V","W","X","Y","Z">>

LowerChars == <<"a","b","c","d","e","f","g","h","i","j","k","l","m",
                "n","o","p","q","r","s","t","u","v","w","x","y","z">>

DigitChars == <<"0","1","2","3","4","5","6","7","8","9">>

Range(f) == {f[i] : i \in DOMAIN f}

DigitSet == Range(DigitChars)

UpperSet == Range(UpperChars)

WordSet == UpperSet \cup Range(LowerChars) \cup DigitSet \cup {"_"}

\* \d
IsDigit(c) == c \in DigitSet

\* \w : ASCII letters, digits and underscore
IsWordChar(c) == c \in WordSet

\* \s
IsSpace(c) == c \in {" ", "\t", "\n"}

\* String.prototype.toLowerCase, one character
LowerOf == [c \in UpperSet |-> LowerChars[CHOOSE i \in DOMAIN UpperChars : UpperChars[i] = c]]

LowerChar(c) ==
    IF c \in UpperSet THEN LowerOf[c]
    ELSE IF c = "É" THEN "é" ELSE c

toLowerCase(s) == [i \in DOMAIN s |-> LowerChar(s[i])]

\* s.startsWith(p)
startsWith(s, p) == Len(p) <= Len(s) /\ SubSeq(s, 1, Len(p)) = p

\* s.endsWith(p)
endsWith(s, p) == Len(p) <= Len(s) /\ SubSeq(s, Len(s) - Len(p) + 1, Len(s)) = p

\* s.slice(n) with 0 <= n
Drop(s, n) == SubSeq(s, n + 1, Len(s))

\* s.indexOf(p), 1-based; 0 when p does not occur
IndexOf(s, p) ==
    LET hits == {i \in 1..(Len(s) - Len(p) + 1) : SubSeq(s, i, i + Len(p) - 1) = p}
    IN  IF hits = {} THEN 0 ELSE CHOOSE i \in hits : \A j \in hits : i <= j

\* s.replace(p, r) with a string pattern: the first occurrence only
ReplaceFirst(s, p, r) ==
    LET i == IndexOf(s, p)
    IN  IF i = 0 THEN s ELSE SubSeq(s, 1, i - 1) \o r \o Drop(s, i + Len(p) - 1)

\* s.replace(/\/$/, '')
StripTrailingSlash(s) ==
    IF Len(s) > 0 /\ s[Len(s)] = "/" THEN SubSeq(s, 1, Len(s) - 1) ELSE s

RECURSIVE SplitFrom(_, _, _)
\* the pieces of s from position i on, cur being the piece under construction
SplitFrom(s, i, cur) ==
    IF i > Len(s) THEN <<cur>>
    ELSE IF s[i] = "/" THEN <<cur>> \o SplitFrom(s, i + 1, <<>>)
    ELSE SplitFrom(s, i + 1, Append(cur, s[i]))

\* s.split('/')
SplitSlash(s) == SplitFrom(s, 1, <<>>)

\* array.filter(part => part) on an array of strings
NonEmptyParts(parts) == SelectSeq(parts, LAMBDA p : p /= <<>>)

RECURSIVE ConcatRange(_, _, _)
\* the pieces lo..hi of an array of strings, joined
ConcatRange(ss, lo, hi) ==
    IF lo > hi THEN <<>>
    ELSE IF lo = hi THEN ss[lo]
    ELSE ConcatRange(ss, lo, (lo + hi) \div 2) \o ConcatRange(ss, (lo + hi) \div 2 + 1, hi)

\* array.join('')
Concat(ss) == ConcatRange(ss, 1, Len(ss))

\* String.prototype.trim
RECURSIVE TrimLeft(_)
TrimLeft(s) == IF s /= <<>> /\ IsSpace(Head(s)) THEN TrimLeft(Tail(s)) ELSE s

RECURSIVE TrimRight(_)
TrimRight(s) ==
    IF s /= <<>> /\ IsSpace(s[Len(s)]) THEN TrimRight(SubSeq(s, 1, Len(s) - 1)) ELSE s

trim(s) == TrimRight(TrimLeft(s))

RECURSIVE StripTags(_)
\* s.replace(/<[^>]*>/g, ''): from each '<' through the next '>'
StripTags(s) ==
    IF s = <<>> THEN <<>>
    ELSE IF Head(s) = "<" /\ IndexOf(s, <<">">>) > 0
         THEN StripTags(Drop(s, IndexOf(s, <<">">>)))
         ELSE <<Head(s)>> \o StripTags(Tail(s))

RECURSIVE CollapseRuns(_, _, _)
\* s.replace(/X+/g, r) for a character class X: r replaces each maximal run
CollapseRuns(s, cls, r) ==
    IF s = <<>> THEN <<>>
    ELSE IF Head(s) \in cls
         THEN LET n == CHOOSE k \in 1..Len(s) :
                          /\ \A j \in 1..k : s[j] \in cls
                          /\ (k = Len(s) \/ s[k + 1] \notin cls)
              IN  r \o CollapseRuns(Drop(s, n), cls, r)
         ELSE <<Head(s)>> \o CollapseRuns(Tail(s), cls, r)

\* hyphen runs left as they are
KeepHyphens(s) == s

RECURSIVE CollapseHyphens(_)
\* s.replace(/--+/g, '-')
CollapseHyphens(s) ==
    IF s = <<>> THEN <<>>
    ELSE IF Head(s) = "-" /\ Len(s) >= 2 /\ s[2] = "-"
         THEN CollapseHyphens(Tail(s))
         ELSE <<Head(s)>> \o CollapseHyphens(Tail(s))

\* slugify: lower-case, trim, whitespace runs to '-', drop every character
\* that is neither a word character nor '-', collapse runs of hyphens
slugify(text) ==
    LET lowered  == trim(toLowerCase(text))
        dashed   == CollapseRuns(lowered, {" ", "\t", "\n"}, <<"-">>)
        stripped == SelectSeq(dashed, LAMBDA c : IsWordChar(c) \/ c = "-")
    IN  CollapseHyphens(stripped)

\* ------------------------------------------------------------------------
\* Posts
\* ------------------------------------------------------------------------

\* an undefined optional value, and a defined one
None == <<>>

Some(v) == <<v>>

IsSome(o) == o /= <<>>

\* the value of a defined optional
The(o) == o[1]

\* a frontmatter date string: one that new Date() parses, or one it does not
DateOf(y, m, d) == [valid |-> TRUE, year |-> y, month |-> m, day |-> d]

BadDate == [valid |-> FALSE, year |-> 0, month |-> 0, day |-> 0]

\* new Date(date).getTime(), up to a monotone rescaling
getTime(date) == (date.year * 12 + (date.month - 1)) * 31 + (date.day - 1)

\* PostMetadata: the frontmatter of one markdown file.  malformed stands for
\* a text field holding a value that is not a string (a YAML number in tags,
\* say), on which String.prototype.replace does not exist
Meta(title, date, slug, categories, category, tags) ==
    [title |-> title, date |-> date, slug |-> slug, categories |-> categories,
     category |-> category, tags |-> tags, excerpt |-> None, author |-> None,
     updated |-> None, i18n |-> <<>>, malformed |-> FALSE, readTime |-> None]

\* one entry of the record getBlogPostFiles() returns: the file path and what
\* its loader resolves to (metadata), plus the markdown body of the file
PostFile(path, metadata, body) == [path |-> path, metadata |-> metadata, body |-> body]

\* number.toString().padStart(2, '0') for 0 <= n <= 99
Pad2(n) == <<DigitChars[(n \div 10) + 1], DigitChars[(n % 10) + 1]>>

\* year.toString() for a four-digit year
Year4(n) ==
    <<DigitChars[(n \div 1000) + 1], DigitChars[((n \div 100) % 10) + 1],
      DigitChars[((n \div 10) % 10) + 1], DigitChars[(n % 10) + 1]>>

\* filePath.split('/').pop().replace('.md', '')
FilenameOf(path) ==
    LET parts == SplitSlash(path)
    IN  ReplaceFirst(parts[Len(parts)], <<".", "m", "d">>, <<>>)

\* UrlPathOf with the month as it is, not padded to two digits
UrlPathOfUnpadded(file) ==
    LET m    == file.metadata
        slug == IF IsSome(m.slug) /\ The(m.slug) /= <<>> THEN The(m.slug) ELSE FilenameOf(file.path)
    IN  <<"/">> \o Year4(The(m.date).year) \o <<"/">>
        \o (IF The(m.date).month < 10 THEN <<DigitChars[The(m.date).month + 1]>>
            ELSE Pad2(The(m.date).month))
        \o <<"/">> \o slug

\* `/${year}/${month}/${slug}` with slug = metadata.slug || filename
UrlPathOf(file) ==
    LET m    == file.metadata
        slug == IF IsSome(m.slug) /\ The(m.slug) /= <<>> THEN The(m.slug) ELSE FilenameOf(file.path)
    IN  <<"/">> \o Year4(The(m.date).year) \o <<"/">> \o Pad2(The(m.date).month) \o <<"/">> \o slug

\* { ...metadata, ...i18nData, i18n: metadata.i18n }
Localized(m, i18nData) ==
    [m EXCEPT !.title      = IF IsSome(i18nData.title) THEN i18nData.title ELSE @,
              !.categories = IF IsSome(i18nData.categories) THEN i18nData.categories ELSE @,
              !.tags       = IF IsSome(i18nData.tags) THEN i18nData.tags ELSE @]

\* metadata.i18n?.[lang], as an optional
I18nFor(m, lang) ==
    LET hits == SelectSeq(m.i18n, LAMBDA e : e.lang = lang)
    IN  IF hits = <<>> THEN None ELSE Some(hits[Len(hits)].data)

\* blogConfig.posts.readTime as shipped
WordsPerMinute == 225

DefaultTime == 3

MinTimeForLongArticle == 5

MinTimeForVeryLongArticle == 10

LongArticleThreshold == 20000

VeryLongArticleThreshold == 50000

HeadingsWeight == 5

\* Math.max
Max(a, b) == IF a > b THEN a ELSE b

\* Math.ceil(a / b) for a >= 0, b > 0
CeilDiv(a, b) == (a + b - 1) \div b

\* cleanContent.trim().split(/\s+/).filter(Boolean).length
WordCount(s) ==
    Cardinality({i \in DOMAIN s : ~IsSpace(s[i]) /\ (i = 1 \/ IsSpace(s[i - 1]))})

\* the first position from i on whose character is not in cls; Len(s) + 1
\* when there is none
RunEnd(s, i, cls) ==
    CHOOSE h \in i..(Len(s) + 1) :
        /\ \A k \in i..(h - 1) : s[k] \in cls
        /\ (h = Len(s) + 1 \/ s[h] \notin cls)

\* the position of the line break that ends the line holding position q;
\* Len(s) + 1 on the last line
LineEnd(s, q) ==
    CHOOSE e \in q..(Len(s) + 1) :
        /\ \A k \in q..(e - 1) : s[k] /= "\n"
        /\ (e = Len(s) + 1 \/ s[e] = "\n")

\* the greatest element of a set of positions; 0 for the empty set
MaxOrZero(S) == IF S = {} THEN 0 ELSE CHOOSE q \in S : \A r \in S : r <= q

\* the least element of a set of positions; 0 for the empty set
MinOrZero(S) == IF S = {} THEN 0 ELSE CHOOSE q \in S : \A r \in S : q <= r

\* the end of the match of /^#+\s+.+$/m at i, the hashes ending before
\* position after and the whitespace before position gap: .+ starts at gap,
\* or, when whitespace runs to the end of the text, on the last blank
\* that \s+ can give back
HeadingFrom(s, i, after, gap) ==
    IF ~(i = 1 \/ s[i - 1] = "\n") \/ after = i \/ gap = after THEN 0
    ELSE IF gap <= Len(s) THEN LineEnd(s, gap) - 1
    ELSE MaxOrZero({q \in (after + 1)..Len(s) : s[q] /= "\n"})

HeadingAfterHashes(s, i, after) == HeadingFrom(s, i, after, RunEnd(s, after, {" ", "\t", "\n"}))

\* where the match of /^#+\s+.+$/m that starts at i ends; 0 when no match
\* starts there
HeadingEnd(s, i) == HeadingAfterHashes(s, i, RunEnd(s, i, {"#"}))

\* where the first match at or after position from starts; 0 for none
FirstHeading(s, from) == MinOrZero({i \in from..Len(s) : HeadingEnd(s, i) > 0})

RECURSIVE HeadingCount(_, _)
\* the matches from the one starting at i on; none when i = 0
HeadingsFrom(s, i) == IF i = 0 THEN 0 ELSE 1 + HeadingCount(s, HeadingEnd(s, i) + 1)

\* (content.match(/^#+\s+.+$/gm) || []).length, matching from position from
HeadingCount(s, from) == HeadingsFrom(s, FirstHeading(s, from))

\* Math.ceil(wordCount / wordsPerMinute), plus
\* Math.ceil(headingCount / headingsWeight) when there are headings
StructuredTime(wordCount, headingCount) ==
    CeilDiv(wordCount, WordsPerMinute)
    + (IF headingCount > 0 THEN CeilDiv(headingCount, HeadingsWeight) ELSE 0)

\* the minimum times of long and very long articles
LengthAdjusted(wordCount, readTime) ==
    IF wordCount > VeryLongArticleThreshold THEN Max(readTime, MinTimeForVeryLongArticle)
    ELSE IF wordCount > LongArticleThreshold THEN Max(readTime, MinTimeForLongArticle)
    ELSE readTime

ReadTimeOf(wordCount, headingCount) ==
    Max(LengthAdjusted(wordCount, StructuredTime(wordCount, headingCount)), DefaultTime)

\* calculateReadTime(content) under the shipped configuration
calculateReadTime(content) ==
    IF content = <<>> THEN DefaultTime
    ELSE ReadTimeOf(WordCount(StripTags(content)), HeadingCount(content, 1))

\* getPostReadTime({ metadata: { fm: { excerpt } }, content }) for a post
\* without a read time of its own: from the content when there is any, else
\* three times the estimate for the excerpt, else the default
getPostReadTime(excerpt, content) ==
    IF content /= <<>> THEN calculateReadTime(content)
    ELSE IF IsSome(excerpt) /\ The(excerpt) /= <<>>
    THEN Max(calculateReadTime(The(excerpt)) * 3, DefaultTime)
    ELSE DefaultTime

\* postModule.metadata.readTime = readTime, without the test that the
\* metadata has no read time yet
ProcessedMetadataOverwrites(file, includeContent) ==
    [file.metadata EXCEPT !.readTime =
        Some(getPostReadTime(file.metadata.excerpt, IF includeContent THEN file.body ELSE <<>>))]

\* postModule.metadata once getAllPosts has processed the module: a read
\* time that was missing (or 0) has been written into the metadata object
ProcessedMetadata(file, includeContent) ==
    IF IsSome(file.metadata.readTime) /\ The(file.metadata.readTime) /= 0 THEN file.metadata
    ELSE [file.metadata EXCEPT !.readTime =
             Some(getPostReadTime(file.metadata.excerpt,
                                  IF includeContent THEN file.body ELSE <<>>))]

\* the module object after getAllPosts has processed it: untouched when
\* its date is missing or does not parse
ProcessedModule(file, includeContent) ==
    IF ~IsSome(file.metadata.date) \/ ~The(file.metadata.date).valid THEN file
    ELSE [file EXCEPT !.metadata = ProcessedMetadata(file, includeContent)]

\* the posts made from one file whose metadata is m: none when the date is
\* missing or unparsable, the base post, or the base post and its
\* localizations
PostsOf(m, file, lang, includeContent, includeLocalizedVersions) ==
    IF ~IsSome(m.date) THEN <<>>
    ELSE IF ~The(m.date).valid THEN <<>>
    ELSE LET basePost == [fm      |-> m,
                          date    |-> m.date,
                          urlPath |-> UrlPathOf(file),
                          path    |-> file.path,
                          content |-> IF includeContent THEN file.body ELSE <<>>,
                          lang    |-> "en"]
         IN  IF includeLocalizedVersions /\ m.i18n /= <<>>
             THEN <<basePost>> \o
                  [i \in DOMAIN m.i18n |->
                      [basePost EXCEPT !.fm = Localized(m, m.i18n[i].data),
                                       !.lang = m.i18n[i].lang]]
             ELSE IF lang /= "en" /\ IsSome(I18nFor(m, lang))
             THEN <<[basePost EXCEPT !.fm = Localized(m, The(I18nFor(m, lang))),
                                     !.lang = lang]>>
             ELSE <<basePost>>

\* the posts one file contributes to getAllPosts
ProcessFile(file, lang, includeContent, includeLocalizedVersions) ==
    PostsOf(ProcessedMetadata(file, includeContent), file, lang, includeContent,
            includeLocalizedVersions)

RECURSIVE FlatMapFiles(_, _, _, _)
\* processedPosts.flat().filter(post => post !== null)
FlatMapFiles(files, lang, includeContent, includeLocalizedVersions) ==
    IF files = <<>> THEN <<>>
    ELSE ProcessFile(Head(files), lang, includeContent, includeLocalizedVersions)
         \o FlatMapFiles(Tail(files), lang, includeContent, includeLocalizedVersions)

RECURSIVE InsertByDate(_, _)
\* insert p into a list sorted newest first, after the posts that are not older
InsertByDate(sorted, p) ==
    IF sorted = <<>> THEN <<p>>
    ELSE IF getTime(The(Head(sorted).date)) >= getTime(The(p.date))
         THEN <<Head(sorted)>> \o InsertByDate(Tail(sorted), p)
         ELSE <<p>> \o sorted

RECURSIVE SortByDateDesc(_)
\* posts.sort((a, b) => time(b) - time(a)): a stable sort, newest first
SortByDateDesc(posts) ==
    IF posts = <<>> THEN <<>>
    ELSE InsertByDate(SortByDateDesc(SubSeq(posts, 1, Len(posts) - 1)), posts[Len(posts)])

\* the list getAllPosts computes on a cache miss
LoadPosts(files, lang, includeContent, includeLocalizedVersions) ==
    SortByDateDesc(FlatMapFiles(files, lang, includeContent, includeLocalizedVersions))

\* ------------------------------------------------------------------------
\* Taxonomy
\* ------------------------------------------------------------------------

\* a JavaScript truthiness test on an optional string: defined and not ''
Truthy(o) == IsSome(o) /\ The(o) /= <<>>

\* array.some(x => slugify(x) === slug)
SomeSlugIs(names, slug) == \E i \in DOMAIN names : slugify(names[i]) = slug

\* getPostCategories: the categories array when there is one, else the
\* singular category, else nothing
getPostCategories(post) ==
    IF IsSome(post.fm.categories) THEN The(post.fm.categories)
    ELSE IF Truthy(post.fm.category) THEN <<The(post.fm.category)>>
    ELSE <<>>

\* getPostTags
getPostTags(post) == IF IsSome(post.fm.tags) THEN The(post.fm.tags) ELSE <<>>

\* the predicate of filterPostsByCategory
MatchesCategoryOrTag(post, categorySlug) ==
    LET hasMatchingCategoryArray ==
            IsSome(post.fm.categories) /\ SomeSlugIs(The(post.fm.categories), categorySlug)
        hasMatchingSingularCategory ==
            IsSome(post.fm.category) /\ slugify(The(post.fm.category)) = categorySlug
        hasMatchingTag ==
            IsSome(post.fm.tags) /\ SomeSlugIs(The(post.fm.tags), categorySlug)
    IN  hasMatchingCategoryArray \/ hasMatchingSingularCategory \/ hasMatchingTag

MatchesCategory(post, categorySlug) ==
    LET hasMatchingCategoryArray ==
            IsSome(post.fm.categories) /\ SomeSlugIs(The(post.fm.categories), categorySlug)
        hasMatchingSingularCategory ==
            IsSome(post.fm.category) /\ slugify(The(post.fm.category)) = categorySlug
        isTagOnly ==
            /\ IsSome(post.fm.tags) /\ SomeSlugIs(The(post.fm.tags), categorySlug)
            /\ ~hasMatchingCategoryArray /\ ~hasMatchingSingularCategory
    IN  (hasMatchingCategoryArray \/ hasMatchingSingularCategory) /\ ~isTagOnly

\* filterPostsByCategory(posts, categorySlug, slugify)
filterPostsByCategory(posts, categorySlug) ==
    SelectSeq(posts, LAMBDA post : MatchesCategory(post, categorySlug))

\* the predicate of filterPostsByTag
MatchesTag(post, tagSlug) ==
    LET hasMatchingTag ==
            IsSome(post.fm.tags) /\ SomeSlugIs(The(post.fm.tags), tagSlug)
        isCategoryOnly ==
            \/ /\ IsSome(post.fm.categories)
               /\ SomeSlugIs(The(post.fm.categories), tagSlug)
               /\ ~hasMatchingTag
            \/ /\ IsSome(post.fm.category)
               /\ slugify(The(post.fm.category)) = tagSlug
               /\ ~hasMatchingTag
    IN  hasMatchingTag /\ ~isCategoryOnly

\* filterPostsByTag(posts, tagSlug, slugify)
filterPostsByTag(posts, tagSlug) ==
    SelectSeq(posts, LAMBDA post : MatchesTag(post, tagSlug))

RECURSIVE FlatTerms(_, _)
\* posts.flatMap(post => extractorFn(post)), the extractor named by kind
FlatTerms(posts, kind) ==
    IF posts = <<>> THEN <<>>
    ELSE (IF kind = "category" THEN getPostCategories(Head(posts)) ELSE getPostTags(Head(posts)))
         \o FlatTerms(Tail(posts), kind)

\* terms.find(term => slugify(term) === slug), as an optional
FindTerm(terms, slug) ==
    LET hits == SelectSeq(terms, LAMBDA term : slugify(term) = slug)
    IN  IF hits = <<>> THEN None ELSE Some(Head(hits))

\* getOriginalTaxonomyName: the first term whose slug is the given one,
\* or the given slug itself when there is none (or the term found is '')
getOriginalTaxonomyName(posts, kind, slugifiedTerm) ==
    LET found == FindTerm(FlatTerms(posts, kind), slugifiedTerm)
    IN  IF Truthy(found) THEN The(found) ELSE slugifiedTerm

\* ------------------------------------------------------------------------
\* RSS
\* ------------------------------------------------------------------------

\* str.replace(/c/g, r) for a single character c
ReplaceAllChar(str, c, r) ==
    Concat([i \in DOMAIN str |-> IF str[i] = c THEN r ELSE <<str[i]>>])

EntAmp == <<"&", "a", "m", "p", ";">>

EntLt == <<"&", "l", "t", ";">>

EntGt == <<"&", "g", "t", ";">>

EntQuot == <<"&", "q", "u", "o", "t", ";">>

EntApos == <<"&", "a", "p", "o", "s", ";">>

\* escapeXml: the five replacements, ampersand first
escapeXmlAmpersandLast(str) ==
    LET a == ReplaceAllChar(str, "<", EntLt)
        b == ReplaceAllChar(a, ">", EntGt)
        c == ReplaceAllChar(b, "\"", EntQuot)
        d == ReplaceAllChar(c, "'", EntApos)
    IN  ReplaceAllChar(d, "&", EntAmp)

escapeXml(str) ==
    LET a == ReplaceAllChar(str, "&", EntAmp)
        b == ReplaceAllChar(a, "<", EntLt)
        c == ReplaceAllChar(b, ">", EntGt)
        d == ReplaceAllChar(c, "\"", EntQuot)
    IN  ReplaceAllChar(d, "'", EntApos)

\* the grave accent character, which a TLA+ string cannot hold
BackTick == "grave"

\* s.lastIndexOf(' '), 1-based; 0 when there is none
LastSpace(s) ==
    LET hits == {i \in DOMAIN s : s[i] = " "}
    IN  IF hits = {} THEN 0 ELSE CHOOSE i \in hits : \A j \in hits : j <= i

Ellipsis == <<".", ".", ".">>

\* getPostExcerpt(post, limit): the frontmatter excerpt, else the stripped
\* body, cut at the last space before the limit and followed by '...'
getPostExcerpt(post, limit) ==
    LET fromFm   == IF Truthy(post.fm.excerpt) THEN The(post.fm.excerpt) ELSE <<>>
        stripped == SelectSeq(StripTags(post.content),
                              LAMBDA c : c \notin {"#", "*", "_", "~", BackTick})
        spaced   == trim(CollapseRuns(stripped, {"\n"}, <<" ">>))
        excerpt  == IF fromFm = <<>> /\ post.content /= <<>>
                    THEN SubSeq(spaced, 1, IF Len(spaced) < limit * 2 THEN Len(spaced) ELSE limit * 2)
                    ELSE fromFm
        truncated == SubSeq(excerpt, 1, limit)
    IN  IF Len(excerpt) > limit
        THEN (IF LastSpace(truncated) > 1
              THEN SubSeq(truncated, 1, LastSpace(truncated) - 1)
              ELSE truncated) \o Ellipsis
        ELSE excerpt

RECURSIVE Dedup(_, _)
\* [...new Set(names)]: first occurrences, in order
Dedup(names, seen) ==
    IF names = <<>> THEN <<>>
    ELSE IF Head(names) \in seen THEN Dedup(Tail(names), seen)
    ELSE <<Head(names)>> \o Dedup(Tail(names), seen \cup {Head(names)})

\* getRssCategoriesXml: the text of the <category> elements of one post
getRssCategoriesXml(post) ==
    LET cats == IF IsSome(post.fm.categories) THEN The(post.fm.categories)
                ELSE IF Truthy(post.fm.category) THEN <<The(post.fm.category)>>
                ELSE <<>>
        tags == IF IsSome(post.fm.tags) THEN The(post.fm.tags) ELSE <<>>
        uniq == Dedup(cats \o tags, {})
    IN  [i \in DOMAIN uniq |-> escapeXml(uniq[i])]

\* blogConfig.name, blogConfig.description and blogConfig.uri as shipped
ConfigName == <<"B", "l", "o", "g">>

ConfigDescription == <<"O", "u", "r", " ", "B", "l", "o", "g">>

ConfigUri == <<"/", "b", "l", "o", "g">>

UntitledPost == <<"U", "n", "t", "i", "t", "l", "e", "d", " ", "P", "o", "s", "t">>

NoDescription == <<"N", "o", " ", "d", "e", "s", "c", "r", "i", "p", "t", "i", "o", "n", " ",
                   "a", "v", "a", "i", "l", "a", "b", "l", "e">>

\* getPostUrl(post): config.uri followed by the post's urlPath
getPostUrl(post) == IF post.urlPath = <<>> THEN ConfigUri ELSE ConfigUri \o post.urlPath

\* the description limit generateRssFeed passes to getPostExcerpt
RssExcerptLimit == 300

\* maxItems = 20 unless the options give one
DefaultMaxItems == 20

\* one <item>: the text placed in each of its elements
RssItem(post, baseUrl) ==
    LET excerpt == getPostExcerpt(post, RssExcerptLimit)
    IN  [title       |-> escapeXml(IF Truthy(post.fm.title) THEN The(post.fm.title) ELSE UntitledPost),
         link        |-> baseUrl \o getPostUrl(post),
         guid        |-> baseUrl \o getPostUrl(post),
         pubDate     |-> post.date,
         lastBuildDate |-> post.fm.updated,
         description |-> escapeXml(IF excerpt /= <<>> THEN excerpt ELSE NoDescription),
         author      |-> escapeXml(IF Truthy(post.fm.author) THEN The(post.fm.author) ELSE ConfigName),
         categories  |-> getRssCategoriesXml(post),
         of          |-> post.path]

RECURSIVE RssItems(_, _)
\* limitedPosts.forEach: one item per post, a post whose item raises is skipped
RssItems(posts, baseUrl) ==
    IF posts = <<>> THEN <<>>
    ELSE (IF Head(posts).fm.malformed THEN <<>> ELSE <<RssItem(Head(posts), baseUrl)>>)
         \o RssItems(Tail(posts), baseUrl)

\* posts.filter(post => post.metadata.fm.title && post.date).slice(0, maxItems)
LimitedPostsSliceFirst(posts, maxItems) ==
    SelectSeq(SubSeq(posts, 1, IF Len(posts) < maxItems THEN Len(posts) ELSE maxItems),
              LAMBDA post : Truthy(post.fm.title) /\ IsSome(post.date))

LimitedPosts(posts, maxItems) ==
    LET valid == SelectSeq(posts, LAMBDA post : Truthy(post.fm.title) /\ IsSome(post.date))
    IN  SubSeq(valid, 1, IF Len(valid) < maxItems THEN Len(valid) ELSE maxItems)

\* RssFeedOptions
RssOptions(siteUrl, maxItems, feedPath) ==
    [siteUrl |-> siteUrl, maxItems |-> maxItems, feedPath |-> feedPath,
     feedTitle |-> None, feedDescription |-> None, language |-> None]

NoFeed == [threw |-> TRUE, channel |-> <<>>, items |-> <<>>]

LangEn == <<"e", "n">>

RssXmlSuffix == <<"/", "r", "s", "s", ".", "x", "m", "l">>

\* generateRssFeed(posts, options): throws without a siteUrl; otherwise the
\* channel elements and the items of the document
generateRssFeed(posts, options) ==
    IF ~Truthy(options.siteUrl) THEN NoFeed
    ELSE LET siteUrl  == The(options.siteUrl)
             baseUrl  == IF endsWith(siteUrl, <<"/">>) THEN SubSeq(siteUrl, 1, Len(siteUrl) - 1) ELSE siteUrl
             maxItems == IF IsSome(options.maxItems) THEN The(options.maxItems) ELSE DefaultMaxItems
             feedPath == IF IsSome(options.feedPath) THEN The(options.feedPath) ELSE ConfigUri \o RssXmlSuffix
         IN  [threw   |-> FALSE,
              channel |-> <<[title       |-> escapeXml(IF IsSome(options.feedTitle) THEN The(options.feedTitle) ELSE ConfigName),
                             link        |-> baseUrl \o ConfigUri,
                             description |-> escapeXml(IF IsSome(options.feedDescription)
                                                       THEN The(options.feedDescription) ELSE ConfigDescription),
                             language    |-> IF IsSome(options.language) THEN The(options.language) ELSE LangEn,
                             selfLink    |-> baseUrl \o feedPath]>>,
              items   |-> RssItems(LimitedPosts(posts, maxItems), baseUrl)]

\* ------------------------------------------------------------------------
\* State
\* ------------------------------------------------------------------------

VARIABLES
    now,          \* Date.now(), in milliseconds
    postsCache,   \* the Map postsCache: cache key -> entry
    calls,        \* the getAllPosts calls awaiting Promise.all, by slot
    modules,      \* what getBlogPostFiles() discovers, in Object.entries order
    nextArr,      \* identity of the next array getAllPosts allocates
    last,         \* what getAllPosts returned in the step just taken, and how
    resp,         \* what the most recent route-level call settled with
    arg,          \* input of the latest handler call, or of the function under study
    res,          \* result of the function under study
    currentConfig \* the module variable currentConfig: null, or the configuration

vars == <<now, postsCache, calls, modules, nextArr, last, resp, arg, res, currentConfig>>

\* const CACHE_TTL = 1000 * 60 * 5
CACHE_TTL == 1000 * 60 * 5

\* the getAllPosts calls that may await their loaders at the same time
MaxInflight == 1

\* the arrays getAllPosts may allocate in one behaviour
MaxArrays == 2

\* the clock is observed up to this many TTL spans after start
MaxSpans == 1

\* the instants at which the clock is observed: each multiple of the TTL
\* and the millisecond before it
Instants == {t \in UNION {{k * CACHE_TTL - 1, k * CACHE_TTL} : k \in 0..MaxSpans} : t >= 0}

Langs == {"en", "de"}

\* GetAllPostsOptions: each of the three fields may be left undefined
OptionsOf(lang, includeContent, includeLocalizedVersions) ==
    [lang |-> lang, includeContent |-> includeContent,
     includeLocalizedVersions |-> includeLocalizedVersions]

\* the destructuring defaults of getAllPosts: 'en', false, false
Defaulted(options) ==
    [lang                     |-> IF IsSome(options.lang) THEN The(options.lang) ELSE "en",
     includeContent           |-> IF IsSome(options.includeContent) THEN The(options.includeContent) ELSE FALSE,
     includeLocalizedVersions |-> IF IsSome(options.includeLocalizedVersions)
                                  THEN The(options.includeLocalizedVersions) ELSE FALSE]

\* JSON.stringify({ lang, includeContent, includeLocalizedVersions }): two
\* triples have the same key exactly when they agree on the three fields
cacheKeyDropsContent(o) == <<o.lang, FALSE, o.includeLocalizedVersions>>

cacheKey(o) == <<o.lang, o.includeContent, o.includeLocalizedVersions>>

CacheKeys == Langs \X BOOLEAN \X BOOLEAN

NoTriple == [lang |-> "", includeContent |-> FALSE, includeLocalizedVersions |-> FALSE]

\* postsCache.get(key) === undefined
NoEntry == [present |-> FALSE, posts |-> <<>>, arr |-> 0, timestamp |-> 0, storedFor |-> NoTriple]

\* a CacheEntry { posts, timestamp }; arr is the identity of the posts array
\* and storedFor records the call arguments the entry was stored for
EntryOf(posts, arr, timestamp, triple) ==
    [present |-> TRUE, posts |-> posts, arr |-> arr, timestamp |-> timestamp, storedFor |-> triple]

\* cached && (Date.now() - cached.timestamp) < CACHE_TTL
IsFresh(entry, t) == entry.present /\ (t - entry.timestamp) < CACHE_TTL

\* who awaits a getAllPosts call: the handler it came through, the loader
\* that made it and the loader's own arguments
CallerOf(via, loader, param, a1, a2, a3, lang, initialLoad, postsPerBatch, custom) ==
    [via |-> via, loader |-> loader, param |-> param, a1 |-> a1, a2 |-> a2, a3 |-> a3,
     lang |-> lang, initialLoad |-> initialLoad, postsPerBatch |-> postsPerBatch,
     custom |-> custom]

\* a getAllPosts call made by the application itself
DirectCaller == CallerOf("direct", "getAllPosts", None, <<>>, <<>>, <<>>, "en", FALSE, None, FALSE)

IdleCall == [pc |-> "idle", triple |-> NoTriple, caller |-> DirectCaller]

\* no getAllPosts call returned in the step
NoReturn ==
    [op |-> "none", triple |-> NoTriple, ok |-> TRUE, fromCache |-> FALSE, discovery |-> FALSE,
     arr |-> 0, entryFor |-> NoTriple, age |-> 0, replaced |-> 0]

\* getAllPosts returned cached.posts at time t: the array returned, the
\* arguments the entry had been stored for and the age of the entry
HitReturn(triple, cached, t) ==
    [op |-> "getAllPosts", triple |-> triple, ok |-> TRUE, fromCache |-> TRUE, discovery |-> FALSE,
     arr |-> cached.arr, entryFor |-> cached.storedFor, age |-> t - cached.timestamp,
     replaced |-> 0]

\* getAllPosts returned the array it has just computed and stored; replaced
\* is the array of the entry that postsCache.set overwrote (0: there was none)
LoadReturn(triple, arr, old) ==
    [op |-> "getAllPosts", triple |-> triple, ok |-> TRUE, fromCache |-> FALSE, discovery |-> TRUE,
     arr |-> arr, entryFor |-> triple, age |-> 0, replaced |-> old.arr]

\* getAllPosts rejected: getBlogPostFiles threw or a loader rejected
FailReturn(triple) ==
    [op |-> "getAllPosts", triple |-> triple, ok |-> FALSE, fromCache |-> FALSE, discovery |-> TRUE,
     arr |-> 0, entryFor |-> NoTriple, age |-> 0, replaced |-> 0]

\* ------------------------------------------------------------------------
\* Route loaders (routeUtils) and handlers
\* ------------------------------------------------------------------------

NoPage == [pageType |-> "none", posts |-> <<>>, allPosts |-> <<>>, term |-> <<>>,
           post |-> <<>>, totalPosts |-> 0, hasMorePosts |-> FALSE]

NoResponse == [status |-> 0, contentType |-> "", cacheControl |-> "", body |-> "", feed |-> NoFeed]

\* no route-level call has settled yet
NoResp ==
    [caller |-> DirectCaller, settled |-> "none", status |-> 0, message |-> "",
     page |-> NoPage, response |-> NoResponse]

\* an error created by createHttpError(message, status)
HttpError(caller, message, status) ==
    [caller |-> caller, settled |-> "rejected", status |-> status, message |-> message,
     page |-> NoPage, response |-> NoResponse]

\* the error getAllPosts rejected with, passed on as it is: a plain Error,
\* which has no status property (status 0 stands for none)
RawError(caller) ==
    [caller |-> caller, settled |-> "rejected", status |-> 0, message |-> "pipeline failure",
     page |-> NoPage, response |-> NoResponse]

\* a route-level call that awaits its posts
Awaiting(caller) ==
    [caller |-> caller, settled |-> "pending", status |-> 0, message |-> "",
     page |-> NoPage, response |-> NoResponse]

Resolved(caller, page) ==
    [caller |-> caller, settled |-> "resolved", status |-> 0, message |-> "",
     page |-> page, response |-> NoResponse]

Responded(caller, response) ==
    [caller |-> caller, settled |-> "resolved", status |-> 0, message |-> "",
     page |-> NoPage, response |-> response]

\* pagination.postsPerBatch in the shipped configuration, and the fallback
\* of loadBlogIndex when the configuration has none (or 0)
DefaultPostsPerBatch == 6

\* finalConfig.pagination?.postsPerBatch || 6
BatchOfIgnoresConfig(postsPerBatch) == DefaultPostsPerBatch

BatchOf(postsPerBatch) ==
    IF IsSome(postsPerBatch) /\ The(postsPerBatch) /= 0 THEN The(postsPerBatch) ELSE DefaultPostsPerBatch

\* loadBlogIndex after getAllPosts has resolved
IndexPage(caller, allPosts) ==
    LET batch == BatchOf(caller.postsPerBatch)
    IN  [NoPage EXCEPT !.pageType = "index",
                       !.posts = IF caller.initialLoad
                                 THEN SubSeq(allPosts, 1, IF Len(allPosts) < batch THEN Len(allPosts) ELSE batch)
                                 ELSE allPosts,
                       !.allPosts = allPosts,
                       !.totalPosts = Len(allPosts),
                       !.hasMorePosts = Len(allPosts) > batch]

\* loadCategory after getAllPosts has resolved
CategoryResult(caller, allPosts) ==
    LET slug             == StripTrailingSlash(caller.a1)
        slugLowerCase    == toLowerCase(slug)
        posts            == filterPostsByCategory(allPosts, slugLowerCase)
        originalCategory == getOriginalTaxonomyName(allPosts, "category", slugLowerCase)
    IN  IF Len(posts) = 0 /\ originalCategory = <<>>
        THEN HttpError(caller, "Category not found or has no posts", 404)
        ELSE Resolved(caller, [NoPage EXCEPT !.pageType = "category", !.posts = posts,
                                             !.allPosts = allPosts,
                                             !.term = IF originalCategory /= <<>> THEN originalCategory ELSE slug])

\* loadTag after getAllPosts has resolved
TagResult(caller, allPosts) ==
    LET slug          == StripTrailingSlash(caller.a1)
        slugLowerCase == toLowerCase(slug)
        posts         == filterPostsByTag(allPosts, slugLowerCase)
        originalTag   == getOriginalTaxonomyName(allPosts, "tag", slugLowerCase)
    IN  IF Len(posts) = 0 /\ originalTag = <<>>
        THEN HttpError(caller, "Tag not found or has no posts", 404)
        ELSE Resolved(caller, [NoPage EXCEPT !.pageType = "tag", !.posts = posts,
                                             !.allPosts = allPosts,
                                             !.term = IF originalTag /= <<>> THEN originalTag ELSE slug])

\* the predicate of allPosts.find in loadPost
IsRequestedPost(p, year, month, postSlug) ==
    LET urlParts == NonEmptyParts(SplitSlash(p.urlPath))
    IN  /\ p.urlPath /= <<>>
        /\ Len(urlParts) = 3
        /\ urlParts[1] = year
        /\ urlParts[2] = month
        /\ (urlParts[3] = postSlug \/ slugify(urlParts[3]) = slugify(postSlug))

\* loadPost after getAllPosts has resolved
PostResult(caller, allPosts) ==
    LET found == SelectSeq(allPosts, LAMBDA p : IsRequestedPost(p, caller.a1, caller.a2, caller.a3))
    IN  IF found = <<>>
        THEN HttpError(caller, "Article not found", 404)
        ELSE Resolved(caller, [NoPage EXCEPT !.pageType = "post", !.post = <<Head(found)>>,
                                             !.allPosts = allPosts])

OriginOf == <<"h", "t", "t", "p", "s", ":", "/", "/", "x", ".", "i", "o">>

BlogRssXml == ConfigUri \o RssXmlSuffix

\* the Response of the RSS handler for a generated feed
FeedResponse(feed) ==
    [status |-> 200, contentType |-> "application/xml",
     cacheControl |-> "max-age=600, s-maxage=600", body |-> "feed", feed |-> feed]

\* the minimal RSS document the handler answers with when generation fails
FailureResponse ==
    [status |-> 500, contentType |-> "application/xml", cacheControl |-> "",
     body |-> "Failed to generate RSS feed", feed |-> NoFeed]

\* whatever the caller's errorHandler(error) returns
CustomResponse ==
    [status |-> 503, contentType |-> "text/plain", cacheControl |-> "",
     body |-> "custom", feed |-> NoFeed]

\* the catch block of the RSS handler
RssFailureRethrows(caller) ==
    IF caller.custom THEN Responded(caller, CustomResponse) ELSE RawError(caller)

RssFailure(caller) ==
    Responded(caller, IF caller.custom THEN CustomResponse ELSE FailureResponse)

\* the RSS handler after getAllPosts has resolved
RssResult(caller, posts) ==
    LET feed == generateRssFeed(posts, RssOptions(Some(OriginOf), None, Some(BlogRssXml)))
    IN  IF feed.threw THEN RssFailure(caller) ELSE Responded(caller, FeedResponse(feed))

\* what the awaiting caller settles with once getAllPosts has resolved
\* (ok, with the list) or rejected; current is the value resp keeps when the
\* call was made by the application itself
Settle(caller, ok, posts, current) ==
    CASE caller.loader = "getAllPosts"   -> current
      [] caller.loader = "loadBlogIndex" -> IF ok THEN Resolved(caller, IndexPage(caller, posts))
                                            ELSE RawError(caller)
      [] caller.loader = "loadCategory"  -> IF ok THEN CategoryResult(caller, posts) ELSE RawError(caller)
      [] caller.loader = "loadTag"       -> IF ok THEN TagResult(caller, posts) ELSE RawError(caller)
      [] caller.loader = "loadPost"      -> IF ok THEN PostResult(caller, posts)
                                            ELSE HttpError(caller, "pipeline failure", 500)
      [] caller.loader = "rss"           -> IF ok THEN RssResult(caller, posts) ELSE RssFailure(caller)

\* resp while the caller awaits getAllPosts
Await(caller, current) ==
    IF caller.loader = "getAllPosts" THEN current ELSE Awaiting(caller)

\* the options each loader passes to getAllPosts
OptionsFor(caller) ==
    CASE caller.loader = "loadBlogIndex" -> OptionsOf(Some(caller.lang), Some(FALSE), None)
      [] caller.loader = "loadCategory"  -> OptionsOf(Some(caller.lang), None, None)
      [] caller.loader = "loadTag"       -> OptionsOf(Some(caller.lang), None, None)
      [] caller.loader = "loadPost"      -> OptionsOf(Some(caller.lang), Some(TRUE), None)
      [] caller.loader = "rss"           -> OptionsOf(None, None, None)

\* the extensions of the static-asset pattern of the slug handler
StaticExtensions ==
    {<<"c", "s", "s">>,
     <<"s", "c", "s", "s">>,
     <<"j", "s">>,
     <<"t", "s">>,
     <<"j", "s", "x">>,
     <<"t", "s", "x">>,
     <<"p", "n", "g">>,
     <<"j", "p", "g">>,
     <<"j", "p", "e", "g">>,
     <<"g", "i", "f">>,
     <<"s", "v", "g">>,
     <<"i", "c", "o">>,
     <<"w", "o", "f", "f">>,
     <<"w", "o", "f", "f", "2">>,
     <<"t", "t", "f">>,
     <<"e", "o", "t">>}

\* normalizedSlug.match(/\.(css|scss|...|eot)$/i)
IsStaticAsset(slug) ==
    LET lowered == toLowerCase(slug)
    IN  \E ext \in StaticExtensions : endsWith(lowered, <<".">> \o ext)

\* normalizedSlug.match(/^\d{4}\/\d{2}\/.+/)
MatchesPostPattern(slug) ==
    /\ Len(slug) >= 9
    /\ \A i \in {1, 2, 3, 4, 6, 7} : IsDigit(slug[i])
    /\ slug[5] = "/"
    /\ slug[8] = "/"
    /\ slug[9] /= "\n"

CategoryPrefix == <<"c", "a", "t", "e", "g", "o", "r", "y", "/">>

TagPrefix == <<"t", "a", "g", "/">>

\* the i-th element of an array, '' standing in for undefined
PartAt(parts, i) == IF i <= Len(parts) THEN parts[i] ELSE <<>>

\* a routing decision: the loader to call with its arguments, or the 404
RouteTo(loader, a1, a2, a3) ==
    [loader |-> loader, a1 |-> a1, a2 |-> a2, a3 |-> a3, status |-> 0, message |-> ""]

RouteFail(message) ==
    [loader |-> "none", a1 |-> <<>>, a2 |-> <<>>, a3 |-> <<>>, status |-> 404, message |-> message]

\* slug ? slug.replace(/\/$/, '') : ''
NormalizedSlug(param) == IF Truthy(param) THEN StripTrailingSlash(The(param)) ELSE <<>>

\* the router of createBlogSlugHandler.load
SlugRouteWholeRemainder(param) ==
    LET normalizedSlug == NormalizedSlug(param)
    IN  IF IsStaticAsset(normalizedSlug) THEN RouteFail("Not a blog route")
        ELSE IF normalizedSlug = <<>> THEN RouteTo("loadBlogIndex", <<>>, <<>>, <<>>)
        ELSE IF startsWith(normalizedSlug, CategoryPrefix)
             THEN RouteTo("loadCategory", ReplaceFirst(normalizedSlug, CategoryPrefix, <<>>), <<>>, <<>>)
        ELSE IF startsWith(normalizedSlug, TagPrefix)
             THEN RouteTo("loadTag", ReplaceFirst(normalizedSlug, TagPrefix, <<>>), <<>>, <<>>)
        ELSE IF MatchesPostPattern(normalizedSlug)
             THEN RouteTo("loadPost", SubSeq(normalizedSlug, 1, 4), SubSeq(normalizedSlug, 6, 7),
                          Drop(normalizedSlug, 8))
        ELSE RouteFail("Blog page not found")

SlugRoute(param) ==
    LET normalizedSlug == NormalizedSlug(param)
        routeParts     == IF normalizedSlug /= <<>> THEN SplitSlash(normalizedSlug) ELSE <<>>
        year           == PartAt(routeParts, 1)
        month          == PartAt(routeParts, 2)
        postSlug       == PartAt(routeParts, 3)
    IN  IF IsStaticAsset(normalizedSlug) THEN RouteFail("Not a blog route")
        ELSE IF normalizedSlug = <<>> THEN RouteTo("loadBlogIndex", <<>>, <<>>, <<>>)
        ELSE IF startsWith(normalizedSlug, CategoryPrefix)
             THEN RouteTo("loadCategory", ReplaceFirst(normalizedSlug, CategoryPrefix, <<>>), <<>>, <<>>)
        ELSE IF startsWith(normalizedSlug, TagPrefix)
             THEN RouteTo("loadTag", ReplaceFirst(normalizedSlug, TagPrefix, <<>>), <<>>, <<>>)
        ELSE IF MatchesPostPattern(normalizedSlug) /\ year /= <<>> /\ month /= <<>> /\ postSlug /= <<>>
             THEN RouteTo("loadPost", year, month, postSlug)
        ELSE RouteFail("Blog page not found")

\* getLanguage(locals): locals?.paraglideLocale || 'en'
LanguageOf(paraglideLocale) ==
    IF IsSome(paraglideLocale) /\ The(paraglideLocale) /= "" THEN The(paraglideLocale) ELSE "en"

\* ------------------------------------------------------------------------
\* Actions
\* ------------------------------------------------------------------------

FreeSlots == {i \in DOMAIN calls : calls[i].pc = "idle"}

\* the slot a new call takes
FirstFree == CHOOSE i \in FreeSlots : \A j \in FreeSlots : i <= j

\* getAllPosts(options) up to its first await, for the given caller: a fresh
\* entry is returned at once; otherwise getBlogPostFiles is invoked (and may
\* throw) and the call awaits its loaders
BeginGetAllPosts(options, caller) ==
    LET triple == Defaulted(options)
        cached == postsCache[cacheKey(triple)]
    IN  IF IsFresh(cached, now)
        THEN /\ last' = HitReturn(triple, cached, now)
             /\ resp' = Settle(caller, TRUE, cached.posts, resp)
             /\ calls' = calls
        ELSE \E throws \in BOOLEAN :
                IF throws
                THEN /\ last' = FailReturn(triple)
                     /\ resp' = Settle(caller, FALSE, <<>>, resp)
                     /\ calls' = calls
                ELSE /\ FreeSlots /= {}
                     /\ calls' = [calls EXCEPT ![FirstFree] = [pc |-> "loading", triple |-> triple,
                                                                caller |-> caller]]
                     /\ resp' = Await(caller, resp)
                     /\ last' = NoReturn

\* the entry postsCache.set stores for a resolved load
StoredEntryKeepsTimestamp(old, posts, arr, t, triple) ==
    EntryOf(posts, arr, IF old.present THEN old.timestamp ELSE t, triple)

StoredEntryMerges(old, posts, arr, t, triple) == EntryOf(old.posts \o posts, arr, t, triple)

StoredEntry(old, posts, arr, t, triple) == EntryOf(posts, arr, t, triple)

\* the cache when Promise.all rejects: the await throws, so that the call
\* never reaches postsCache.set
CacheOnRejectionEvicts(cache, triple) == [cache EXCEPT ![cacheKey(triple)] = NoEntry]

CacheOnRejection(cache, triple) == cache

\* Promise.all settles for the call in slot i: a loader rejected, or all
\* resolved and the call flattens, sorts, stores and returns its list.  The
\* callbacks of the modules that did load have written the read times they
\* computed into those modules' metadata
SettledLoad(i) ==
    /\ calls[i].pc = "loading"
    /\ calls' = [calls EXCEPT ![i] = IdleCall]
    /\ UNCHANGED <<now, arg, currentConfig>>
    /\ LET call   == calls[i]
           triple == call.triple
           posts  == LoadPosts(modules, triple.lang, triple.includeContent,
                               triple.includeLocalizedVersions)
       IN  \E rejects \in BOOLEAN :
              IF rejects
              THEN /\ \E j \in DOMAIN modules :
                          modules' = [k \in DOMAIN modules |->
                                         IF k = j THEN modules[k]
                                         ELSE ProcessedModule(modules[k], triple.includeContent)]
                   /\ last' = FailReturn(triple)
                   /\ resp' = Settle(call.caller, FALSE, <<>>, resp)
                   /\ postsCache' = CacheOnRejection(postsCache, triple)
                   /\ nextArr' = nextArr
              ELSE /\ nextArr <= MaxArrays
                   /\ modules' = [k \in DOMAIN modules |->
                                     ProcessedModule(modules[k], triple.includeContent)]
                   /\ postsCache' = [postsCache EXCEPT ![cacheKey(triple)] =
                                        StoredEntry(@, posts, nextArr, now, triple)]
                   /\ nextArr' = nextArr + 1
                   /\ last' = LoadReturn(triple, nextArr, postsCache[cacheKey(triple)])
                   /\ resp' = Settle(call.caller, TRUE, posts, resp)

Settled(i) == SettledLoad(i) /\ UNCHANGED res

\* a getAllPosts call by the application
GetAllPosts(options) ==
    /\ UNCHANGED <<now, postsCache, modules, nextArr, arg, res, currentConfig>>
    /\ BeginGetAllPosts(options, DirectCaller)

\* clearBlogCache(): postsCache.clear()
ClearedCache ==
    /\ postsCache' = [k \in CacheKeys |-> NoEntry]
    /\ last' = NoReturn
    /\ UNCHANGED <<now, calls, modules, nextArr, resp, arg, currentConfig>>

ClearBlogCache == ClearedCache /\ UNCHANGED res

\* time passes, up to the next instant at which the clock is observed
Tick ==
    /\ \E t \in Instants : /\ t > now
                           /\ \A u \in Instants : u > now => t <= u
                           /\ now' = t
    /\ last' = NoReturn
    /\ UNCHANGED <<postsCache, calls, modules, nextArr, resp, arg, res, currentConfig>>

\* ------------------------------------------------------------------------
\* Sample content
\* ------------------------------------------------------------------------

sJavaScript == <<"J", "a", "v", "a", "S", "c", "r", "i", "p", "t">>

sWebDev == <<"W", "e", "b", " ", "D", "e", "v">>

sReact == <<"r", "e", "a", "c", "t">>

\* markdown files: path, frontmatter, body.  FileA and FileB state their
\* read time in the frontmatter
FileA ==
    PostFile(<<"b", "/", "a", ".", "m", "d">>,
             [Meta(Some(<<"A">>), Some(DateOf(2024, 3, 15)), None,
                   Some(<<sJavaScript, sWebDev>>), None, None)
                 EXCEPT !.readTime = Some(4)],
             <<"a", " ", "b">>)

FileB ==
    PostFile(<<"b", "/", "b", ".", "m", "d">>,
             [Meta(Some(<<"B">>), Some(DateOf(2024, 11, 2)), Some(<<"m", "y", "-", "b">>),
                   None, Some(sReact), Some(<<sJavaScript>>))
                 EXCEPT !.readTime = Some(7)],
             <<"b">>)

\* a file whose frontmatter has no date
FileNoDate ==
    PostFile(<<"b", "/", "n", ".", "m", "d">>,
             Meta(Some(<<"N">>), None, None, None, None, Some(<<sReact>>)),
             <<>>)

\* a file whose date does not parse
FileBadDate ==
    PostFile(<<"b", "/", "x", ".", "m", "d">>,
             Meta(Some(<<"X">>), Some(BadDate), None, Some(<<sReact>>), None, None),
             <<>>)

\* ------------------------------------------------------------------------
\* The post cache under getAllPosts calls, clearBlogCache and the clock
\* ------------------------------------------------------------------------

\* the options the application calls getAllPosts with
DirectOptions ==
    {OptionsOf(None, None, None),
     OptionsOf(Some("en"), Some(FALSE), Some(FALSE)),
     OptionsOf(None, Some(TRUE), None),
     OptionsOf(Some("de"), None, Some(TRUE))}

\* the content directories the cache is studied over
CacheModuleChoices == {<<FileA, FileNoDate, FileB>>}

InitWith(moduleChoices) ==
    /\ now = 0
    /\ postsCache = [k \in CacheKeys |-> NoEntry]
    /\ calls = [i \in 1..MaxInflight |-> IdleCall]
    /\ modules \in moduleChoices
    /\ nextArr = 1
    /\ currentConfig = None
    /\ last = NoReturn
    /\ resp = NoResp
    /\ arg = <<>>
    /\ res = <<>>

Init == InitWith(CacheModuleChoices)

Next ==
    \/ \E options \in DirectOptions : GetAllPosts(options)
    \/ \E i \in 1..MaxInflight : Settled(i)
    \/ ClearBlogCache
    \/ Tick

Spec == Init /\ [][Next]_vars

\* ------------------------------------------------------------------------
\* Properties of the post cache
\* ------------------------------------------------------------------------

\* C1: whenever getAllPosts returns a list taken from the cache, the entry
\* had been stored for the same (lang, includeContent,
\* includeLocalizedVersions) triple as the request, after defaulting, and
\* strictly less than CACHE_TTL had elapsed since it was stored.
C1_CacheHitOnlySameTripleAndFresh ==
    (last.op = "getAllPosts" /\ last.fromCache) =>
        /\ last.entryFor = last.triple
        /\ last.age < CACHE_TTL

\* a list is returned from the cache one millisecond before it expires,
\* while an entry for another triple is present as well
C1_Witness ==
    /\ last.op = "getAllPosts" /\ last.fromCache
    /\ last.age = CACHE_TTL - 1
    /\ \E k \in CacheKeys : postsCache[k].present /\ postsCache[k].storedFor /= last.triple

\* a getAllPosts(options) step that finds an entry for its arguments stored
\* less than CACHE_TTL ago returns that very array without invoking
\* getBlogPostFiles or a loader
HitWithinTtl(options) ==
    LET entry == postsCache[cacheKey(Defaulted(options))]
    IN  (entry.present /\ now - entry.timestamp < CACHE_TTL) =>
            /\ last'.ok /\ last'.fromCache /\ ~last'.discovery
            /\ last'.arr = entry.arr
            /\ calls' = calls
            /\ postsCache' = postsCache

\* a getAllPosts(options) step that finds an entry for its arguments aged
\* CACHE_TTL or more invokes discovery: it either rejects because discovery
\* threw, or awaits its loaders
ReloadAfterTtl(options) ==
    LET triple == Defaulted(options)
        entry  == postsCache[cacheKey(triple)]
    IN  (entry.present /\ now - entry.timestamp >= CACHE_TTL) =>
            \/ last'.discovery /\ ~last'.ok /\ ~last'.fromCache /\ last'.triple = triple
            \/ \E i \in DOMAIN calls :
                  calls[i].pc = "idle" /\ calls'[i].pc = "loading" /\ calls'[i].triple = triple

\* a load that resolves stores a new array with the current time under its
\* key, replacing what was there, and returns that same array
StoreReplaces(i) ==
    LET triple == calls[i].triple
        k      == cacheKey(triple)
    IN  (last'.op = "getAllPosts" /\ last'.ok) =>
            /\ postsCache'[k].present
            /\ postsCache'[k].timestamp = now
            /\ postsCache'[k].arr = last'.arr
            /\ postsCache'[k].posts = LoadPosts(modules, triple.lang, triple.includeContent,
                                                triple.includeLocalizedVersions)
            /\ \A k2 \in CacheKeys : postsCache[k2].present => postsCache[k2].arr /= last'.arr
            /\ \A k2 \in CacheKeys \ {k} : postsCache'[k2] = postsCache[k2]

\* C2: a call with the same arguments that starts less than 5 minutes after
\* the entry was stored returns the very same array and invokes neither
\* discovery nor a loader; a call that starts once the TTL has expired
\* invokes discovery again, and when its load resolves the entry is replaced
\* by the newly computed list with a new timestamp.
C2_HitThenReloadAfterExpiry ==
    [][/\ \A options \in DirectOptions :
             GetAllPosts(options) => (HitWithinTtl(options) /\ ReloadAfterTtl(options))
       /\ \A i \in 1..MaxInflight : Settled(i) => StoreReplaces(i)]_vars

\* an expired entry has been replaced by a newly loaded list, which a later
\* call with the same arguments was then served from the cache
C2_Witness ==
    /\ last.fromCache
    /\ postsCache[cacheKey(last.triple)].arr = last.arr
    /\ postsCache[cacheKey(last.triple)].timestamp >= CACHE_TTL
    /\ last.arr > 1

\* ------------------------------------------------------------------------
\* The route handlers: slug handler, index handler and RSS handler
\* ------------------------------------------------------------------------

\* a loader up to its first await: loadCategory and loadTag reject an empty
\* slug themselves; otherwise the loader calls getAllPosts with its options
CallLoader(caller) ==
    IF caller.loader = "loadCategory" /\ caller.a1 = <<>>
    THEN /\ resp' = HttpError(caller, "Category not specified", 404)
         /\ last' = NoReturn
         /\ calls' = calls
    ELSE IF caller.loader = "loadTag" /\ caller.a1 = <<>>
    THEN /\ resp' = HttpError(caller, "Tag not specified", 404)
         /\ last' = NoReturn
         /\ calls' = calls
    ELSE BeginGetAllPosts(OptionsFor(caller), caller)

\* the caller record of a slug-handler request routed to the given loader
SlugCaller(loader, param, a1, a2, a3, lang, config) ==
    CallerOf("slug", loader, param, a1, a2, a3, lang, FALSE, config, FALSE)

\* the event a handler is called with, and the options it was created with
Request(handler, slug, paraglideLocale, config, custom) ==
    [handler |-> handler, slug |-> slug, paraglideLocale |-> paraglideLocale,
     config |-> config, custom |-> custom]

\* createBlogSlugHandler({ config }).load({ params: { slug }, locals })
SlugLoad(param, paraglideLocale, config) ==
    /\ arg' = Request("slug", param, paraglideLocale, config, FALSE)
    /\ UNCHANGED <<now, postsCache, modules, nextArr, res, currentConfig>>
    /\ LET route == SlugRoute(param)
           lang  == LanguageOf(paraglideLocale)
       IN  IF route.loader = "none"
           THEN /\ resp' = HttpError(SlugCaller("none", param, <<>>, <<>>, <<>>, lang, config),
                                     route.message, route.status)
                /\ last' = NoReturn
                /\ calls' = calls
           ELSE CallLoader(SlugCaller(route.loader, param, route.a1, route.a2, route.a3, lang, config))

\* createBlogIndexHandler(...).load({ locals }): loadBlogIndex(lang, config,
\* { initialLoad: true })
IndexLoad(paraglideLocale, config) ==
    /\ arg' = Request("index", None, paraglideLocale, config, FALSE)
    /\ UNCHANGED <<now, postsCache, modules, nextArr, res, currentConfig>>
    /\ CallLoader(CallerOf("index", "loadBlogIndex", None, <<>>, <<>>, <<>>,
                           LanguageOf(paraglideLocale), TRUE, config, FALSE))

\* the GET handler of createRSSFeedHandler({ errorHandler }): custom tells
\* whether an errorHandler was supplied
RssGet(custom) ==
    /\ arg' = Request("rss", None, None, None, custom)
    /\ UNCHANGED <<now, postsCache, modules, nextArr, res, currentConfig>>
    /\ BeginGetAllPosts(OptionsOf(None, None, None),
                        CallerOf("rss", "rss", None, <<>>, <<>>, <<>>, "en", FALSE, None, custom))

\* params.slug of the requests studied (undefined, '', and paths)
SlugParams ==
    {None,
     Some(<<>>),
     Some(<<"/">>),
     Some(<<"c", "a", "t", "e", "g", "o", "r", "y", "/", "j", "a", "v", "a", "s", "c", "r", "i", "p", "t">>),
     Some(<<"c", "a", "t", "e", "g", "o", "r", "y", "/", "J", "a", "v", "a", "S", "c", "r", "i", "p", "t", "/">>),
     Some(<<"c", "a", "t", "e", "g", "o", "r", "y", "/", "w", "e", "b", "-", "d", "e", "v">>),
     Some(<<"c", "a", "t", "e", "g", "o", "r", "y", "/", "r", "e", "a", "c", "t">>),
     Some(<<"c", "a", "t", "e", "g", "o", "r", "y", "/", "n", "o", "n", "e">>),
     Some(<<"c", "a", "t", "e", "g", "o", "r", "y", "/", "x", ".", "C", "S", "S">>),
     Some(<<"c", "a", "t", "e", "g", "o", "r", "y">>),
     Some(<<"c", "a", "t", "e", "g", "o", "r", "y", "/", "/">>),
     Some(<<"t", "a", "g", "/", "j", "a", "v", "a", "s", "c", "r", "i", "p", "t">>),
     Some(<<"t", "a", "g", "/", "n", "o", "n", "e">>),
     Some(<<"t", "a", "g", "/", "/">>),
     Some(<<"2", "0", "2", "4", "/", "0", "3", "/", "a">>),
     Some(<<"2", "0", "2", "4", "/", "0", "3", "/", "a", "/">>),
     Some(<<"2", "0", "2", "4", "/", "0", "3", "/", "a", "/", "b">>),
     Some(<<"2", "0", "2", "4", "/", "0", "3", "/", "/", "a">>),
     Some(<<"2", "0", "2", "4", "/", "0", "3", "/", "z", "z">>),
     Some(<<"2", "0", "2", "4", "/", "0", "3", "/", "a", ".", "p", "n", "g">>),
     Some(<<"2", "0", "2", "4", "/", "1", "1", "/", "m", "y", "-", "b">>),
     Some(<<"2", "0", "2", "4", "/", "1", "1", "/", "M", "y", " ", "B">>),
     Some(<<"2", "0", "2", "4", "/", "0", "3">>),
     Some(<<"2", "0", "2", "4", "/", "0", "3", "/">>),
     Some(<<"2", "4", "/", "0", "3", "/", "p", "o", "s", "t">>),
     Some(<<"2", "0", "2", "4", "/", "3", "/", "p", "o", "s", "t">>),
     Some(<<"r", "a", "n", "d", "o", "m", "/", "p", "a", "t", "h">>),
     Some(<<"s", "t", "y", "l", "e", ".", "c", "s", "s">>),
     Some(<<"a", ".", "W", "o", "f", "f", "2", "/">>)}

\* locals.paraglideLocale of the requests studied
Locales == {None, Some("de")}

\* the config option the handlers are created with: none, or one whose
\* pagination.postsPerBatch is 1, or 0
HandlerConfigs == {None, Some(1), Some(0)}

\* the content directory the handlers are studied over
RouteModuleChoices == {<<FileA, FileNoDate, FileBadDate, FileB>>}

InitRoute ==
    /\ now = 0
    /\ postsCache = [k \in CacheKeys |-> NoEntry]
    /\ calls = <<IdleCall>>
    /\ modules \in RouteModuleChoices
    /\ nextArr = 1
    /\ currentConfig = None
    /\ last = NoReturn
    /\ resp = NoResp
    /\ arg = <<>>
    /\ res = <<>>

\* requests are served one at a time, each settling before the next
\* arrives; the slug handler is created without a config
SlugRequest(param, paraglideLocale) ==
    FreeSlots /= {} /\ SlugLoad(param, paraglideLocale, None)

IndexRequest(paraglideLocale, config) ==
    FreeSlots /= {} /\ IndexLoad(paraglideLocale, config)

RssRequest(custom) ==
    FreeSlots /= {} /\ RssGet(custom)

NextRoute ==
    \/ \E param \in SlugParams, paraglideLocale \in Locales : SlugRequest(param, paraglideLocale)
    \/ \E paraglideLocale \in Locales, config \in HandlerConfigs : IndexRequest(paraglideLocale, config)
    \/ \E custom \in BOOLEAN : RssRequest(custom)
    \/ \E i \in DOMAIN calls : Settled(i)

SpecRoute == InitRoute /\ [][NextRoute]_vars

\* ------------------------------------------------------------------------
\* Properties of the route handlers
\* ------------------------------------------------------------------------

\* the step hands the request to the loader and arguments of caller, and to
\* no other: the loader either awaits getAllPosts in a slot that was idle, or
\* has settled within the step
Invoked(caller) ==
    \/ /\ resp' = Awaiting(caller)
       /\ \E i \in DOMAIN calls :
             /\ calls[i].pc = "idle"
             /\ calls' = [calls EXCEPT ![i] = [pc |-> "loading",
                                               triple |-> Defaulted(OptionsFor(caller)),
                                               caller |-> caller]]
    \/ /\ resp'.caller = caller
       /\ resp'.settled /= "pending"
       /\ calls' = calls

\* the step rejects the request with a 404 of the router itself: no loader
\* runs and getAllPosts is not called
RejectedByRouter(param, lang, message) ==
    /\ resp' = HttpError(SlugCaller("none", param, <<>>, <<>>, <<>>, lang, None), message, 404)
    /\ calls' = calls
    /\ last' = NoReturn

\* the slug with one '/' appended
WithSlash(param) == Some(The(param) \o <<"/">>)

\* the outcome the five-way classification prescribes for a slug parameter
DispatchedByPriority(param, paraglideLocale) ==
    LET s    == IF IsSome(param) THEN StripTrailingSlash(The(param)) ELSE <<>>
        lang == LanguageOf(paraglideLocale)
    IN  /\ IF IsStaticAsset(s) THEN RejectedByRouter(param, lang, "Not a blog route")
           ELSE IF s = <<>>
                THEN Invoked(SlugCaller("loadBlogIndex", param, <<>>, <<>>, <<>>, lang, None))
           ELSE IF startsWith(s, CategoryPrefix)
                THEN Invoked(SlugCaller("loadCategory", param, Drop(s, Len(CategoryPrefix)),
                                        <<>>, <<>>, lang, None))
           ELSE IF startsWith(s, TagPrefix)
                THEN Invoked(SlugCaller("loadTag", param, Drop(s, Len(TagPrefix)),
                                        <<>>, <<>>, lang, None))
           ELSE IF MatchesPostPattern(s)
                THEN /\ resp'.caller.loader = "loadPost"
                     /\ resp'.caller.via = "slug"
                     /\ resp'.caller.param = param
                     /\ resp'.caller.lang = lang
                     /\ Invoked(resp'.caller)
           ELSE RejectedByRouter(param, lang, "Blog page not found")
        /\ (IsSome(param) /\ ~endsWith(The(param), <<"/">>)) =>
               SlugRoute(WithSlash(param)) = SlugRoute(param)

\* C3: for every slug parameter the slug handler strips one trailing slash
\* and takes exactly one outcome, in this priority: static-asset extension
\* (any letter case) -> 404 'Not a blog route' with no loader; empty ->
\* loadBlogIndex; 'category/' -> loadCategory(rest); 'tag/' -> loadTag(rest);
\* a slug matching ^\d{4}/\d{2}/.+ -> loadPost; anything else -> 404 'Blog
\* page not found'.  At most one loader runs, and a slug with one trailing
\* slash dispatches as the slug without it.
C3_SlugDispatchesByPriority ==
    [][\A param \in SlugParams, paraglideLocale \in Locales :
          SlugLoad(param, paraglideLocale, None) => DispatchedByPriority(param, paraglideLocale)]_vars

\* the slug of a request, one trailing slash removed
SlugOf(param) == IF IsSome(param) THEN StripTrailingSlash(The(param)) ELSE <<>>

\* the text between the second slash of a post path and the next slash
ThirdSegment(s) ==
    LET rest == Drop(s, 8)
        k    == IndexOf(rest, <<"/">>)
    IN  IF k = 0 THEN rest ELSE SubSeq(rest, 1, k - 1)

\* the slug is a post path that is not a static-asset path
IsPostPath(s) == MatchesPostPattern(s) /\ ~IsStaticAsset(s)

SomePostHasCategory(posts, s) ==
    \E i \in DOMAIN posts :
        \/ IsSome(posts[i].fm.categories) /\
           \E j \in DOMAIN The(posts[i].fm.categories) : slugify(The(posts[i].fm.categories)[j]) = s
        \/ IsSome(posts[i].fm.category) /\ slugify(The(posts[i].fm.category)) = s

\* some post of the list carries a tag whose slug is s
SomePostHasTag(posts, s) ==
    \E i \in DOMAIN posts :
        IsSome(posts[i].fm.tags) /\
        \E j \in DOMAIN The(posts[i].fm.tags) : slugify(The(posts[i].fm.tags)[j]) = s

\* the post is the one at /year/month/slug
IsPostAt(post, year, month, postSlug) ==
    LET prefix == <<"/">> \o year \o <<"/">> \o month \o <<"/">>
        name   == Drop(post.urlPath, Len(prefix))
    IN  /\ startsWith(post.urlPath, prefix)
        /\ (name = postSlug \/ slugify(name) = slugify(postSlug))

\* C5: loadCategory and loadTag return page data only when at least one post
\* of the loaded list matches the lower-cased slug or carries a category
\* (resp. tag) whose slugified name equals it, and fail with 404 otherwise;
\* loadPost returns a post only when it has the requested year, month and
\* slug.
C5_NotFoundWithoutMatchOrTerm ==
    /\ (resp.caller.loader = "loadCategory" /\ resp.settled = "resolved") =>
           \/ resp.page.posts /= <<>>
           \/ SomePostHasCategory(resp.page.allPosts, toLowerCase(StripTrailingSlash(resp.caller.a1)))
    /\ (resp.caller.loader = "loadTag" /\ resp.settled = "resolved") =>
           \/ resp.page.posts /= <<>>
           \/ SomePostHasTag(resp.page.allPosts, toLowerCase(StripTrailingSlash(resp.caller.a1)))
    /\ (resp.caller.loader = "loadPost" /\ resp.settled = "resolved") =>
           /\ resp.page.post /= <<>>
           /\ IsPostAt(The(resp.page.post), resp.caller.a1, resp.caller.a2, resp.caller.a3)

\* C7: every error a route-level load (index handler, slug handler and the
\* loaders behind them) rejects with carries a numeric status, 404 or 500.
C7_RouteErrorsCarryStatus ==
    (resp.settled = "rejected" /\ resp.caller.via \in {"index", "slug"}) =>
        resp.status \in {404, 500}

\* C8: the RSS handler always resolves to a Response: the generated feed
\* with Content-Type application/xml and Cache-Control 'max-age=600,
\* s-maxage=600' when getAllPosts and generateRssFeed succeed; on a failure
\* the errorHandler's result when one was supplied, otherwise the status-500
\* application/xml document saying 'Failed to generate RSS feed'.
C8_RssAlwaysResponds ==
    (resp.caller.via = "rss" /\ resp.settled /= "pending") =>
        /\ resp.settled = "resolved"
        /\ IF last.ok
           THEN resp.response =
                    [status |-> 200, contentType |-> "application/xml",
                     cacheControl |-> "max-age=600, s-maxage=600", body |-> "feed",
                     feed |-> generateRssFeed(LoadPosts(modules, "en", FALSE, FALSE),
                                              RssOptions(Some(OriginOf), None, Some(BlogRssXml)))]
           ELSE IF resp.caller.custom
           THEN resp.response = CustomResponse
           ELSE /\ resp.response.status = 500
                /\ resp.response.contentType = "application/xml"
                /\ resp.response.body = "Failed to generate RSS feed"

\* the post pipeline failed for a feed request without an errorHandler,
\* which was answered with the status-500 document
C8_Witness ==
    /\ resp.caller.via = "rss"
    /\ ~resp.caller.custom
    /\ resp.settled = "resolved"
    /\ ~last.ok
    /\ resp.response.status = 500

\* ------------------------------------------------------------------------
\* The taxonomy filters as functions of their arguments
\* ------------------------------------------------------------------------

\* all sequences over S of length at most n
SeqsUpTo(S, n) == UNION {[1..k -> S] : k \in 0..n}

\* a processed post with the given name and taxonomy frontmatter
TaxonomyPost(name, categories, category, tags) ==
    ProcessFile(PostFile(<<"b", "/", name, ".", "m", "d">>,
                         Meta(Some(<<name>>), Some(DateOf(2024, 1, 1)), None,
                              categories, category, tags),
                         <<>>),
                "en", FALSE, FALSE)[1]

\* { categories: ['JavaScript'] }
PostCategoriesJs == TaxonomyPost("c", Some(<<sJavaScript>>), None, None)

\* { tags: ['JavaScript'] }
PostTagsJs == TaxonomyPost("t", None, None, Some(<<sJavaScript>>))

\* { category: 'React', tags: ['JavaScript'] }
PostCategoryReact == TaxonomyPost("r", None, Some(<<"R", "e", "a", "c", "t">>), Some(<<sJavaScript>>))

\* { categories: ['react'], tags: ['React'] }
PostBothReact == TaxonomyPost("b", Some(<<sReact>>), None, Some(<<<<"R", "e", "a", "c", "t">>>>))

\* { categories: ['Web Dev'], category: 'JavaScript' }
PostArrayAndSingular == TaxonomyPost("w", Some(<<sWebDev>>), Some(sJavaScript), None)

\* a post without categories and tags
PostPlain == TaxonomyPost("p", None, None, None)

TaxonomyPosts ==
    {PostCategoriesJs, PostTagsJs, PostCategoryReact, PostBothReact, PostArrayAndSingular, PostPlain}

\* the slugs the filters are asked for
TermSlugs == {<<"j", "a", "v", "a", "s", "c", "r", "i", "p", "t">>, <<"r", "e", "a", "c", "t">>, <<"w", "e", "b", "-", "d", "e", "v">>}

\* the longest post list handed to a filter
MaxFilterPosts == 2

NoFilterResult == [fn |-> "none", out |-> <<>>]

InitFilter ==
    /\ now = 0
    /\ postsCache = [k \in CacheKeys |-> NoEntry]
    /\ calls = <<IdleCall>>
    /\ modules = <<>>
    /\ nextArr = 1
    /\ currentConfig = None
    /\ last = NoReturn
    /\ resp = NoResp
    /\ arg \in [posts : SeqsUpTo(TaxonomyPosts, MaxFilterPosts), slug : TermSlugs]
    /\ res = NoFilterResult

\* filterPostsByCategory(posts, slug, slugify)
FilterByCategory ==
    /\ res' = [fn |-> "filterPostsByCategory", out |-> filterPostsByCategory(arg.posts, arg.slug)]
    /\ UNCHANGED <<now, postsCache, calls, modules, nextArr, last, resp, arg, currentConfig>>

\* filterPostsByTag(posts, slug, slugify)
FilterByTag ==
    /\ res' = [fn |-> "filterPostsByTag", out |-> filterPostsByTag(arg.posts, arg.slug)]
    /\ UNCHANGED <<now, postsCache, calls, modules, nextArr, last, resp, arg, currentConfig>>

NextFilter == FilterByCategory \/ FilterByTag

SpecFilter == InitFilter /\ [][NextFilter]_vars

\* C6: filterPostsByCategory returns exactly the posts having the slug among
\* the slugs of their categories array or singular category, and
\* filterPostsByTag exactly the posts having it among the slugs of their
\* tags, in input order: a post carrying the term only as a tag is never in
\* the category result, one carrying it only as a category never in the tag
\* result, one carrying it as both is in both.
C6_FiltersKeepExactlyTheirKind ==
    /\ res.fn = "filterPostsByCategory" =>
           res.out = SelectSeq(arg.posts, LAMBDA p : SomePostHasCategory(<<p>>, arg.slug))
    /\ res.fn = "filterPostsByTag" =>
           res.out = SelectSeq(arg.posts, LAMBDA p : SomePostHasTag(<<p>>, arg.slug))

\* category/javascript over [{categories:['JavaScript']}, {tags:['JavaScript']}]
\* has yielded the first post only
C6_Witness ==
    /\ arg.posts = <<PostCategoriesJs, PostTagsJs>>
    /\ arg.slug = <<"j", "a", "v", "a", "s", "c", "r", "i", "p", "t">>
    /\ res.fn = "filterPostsByCategory"
    /\ res.out = <<PostCategoriesJs>>

\* ------------------------------------------------------------------------
\* generateRssFeed as a function of its arguments
\* ------------------------------------------------------------------------

\* a processed post as generateRssFeed reads it
FeedPost(name, title, date, excerpt, author, categories, category, tags, content, malformed) ==
    [fm      |-> [Meta(title, date, None, categories, category, tags)
                      EXCEPT !.excerpt = excerpt, !.author = author, !.malformed = malformed],
     date    |-> date,
     urlPath |-> <<"/", "2", "0", "2", "4", "/", "0", "1", "/", name>>,
     path    |-> <<"b", "/", name, ".", "m", "d">>,
     content |-> content,
     lang    |-> "en"]

FeedDate == Some(DateOf(2024, 1, 1))

\* every special character in title, excerpt, author, categories and tags
PostSpecials ==
    FeedPost("s", Some(<<"A", "<", "b", ">", "&", "\"", "c", "'">>), FeedDate, Some(<<"x", " ", "&", " ", "y", " ", "<", "z", ">", " ", "'", "q", "'">>),
             Some(<<"O", "'", "N", "e", "i", "l", " ", "&", " ", "\"", "C", "o", "\"">>), Some(<<<<"C", "&", "D">>, <<"<", "b", ">">>>>), None,
             Some(<<<<"C", "&", "D">>, <<"t", "\"", "q", "'">>>>), <<>>, FALSE)

\* text that already looks escaped, and an excerpt taken from the body
PostEntities ==
    FeedPost("e", Some(<<"&", "a", "m", "p", ";", " ", "&", "l", "t", ";">>), FeedDate, None, None, None, Some(<<"R", "&", "D">>), None,
             <<"<", "p", ">", "T", "o", "m", " ", "&", " ", "J", "e", "r", "r", "y", "'", "s", " ", "\"", "s", "h", "o", "w", "\"", "<", "/", "p", ">", " ", "*", "x", "*", " ", ">", " ", "y">>, FALSE)

\* an excerpt longer than the description limit
LongExcerpt ==
    [i \in 1..(RssExcerptLimit + 40) |->
        IF i % 10 = 0 THEN " " ELSE IF i % 7 = 0 THEN "&" ELSE IF i % 11 = 0 THEN "<" ELSE "x"]

PostLong == FeedPost("l", Some(<<"L">>), FeedDate, Some(LongExcerpt), None, None, None, None, <<>>, FALSE)

\* posts the title-and-date filter drops
PostEmptyTitle == FeedPost("n", Some(<<>>), FeedDate, None, None, None, None, None, <<>>, FALSE)

PostNoDate == FeedPost("d", Some(<<"D">>), None, None, None, None, None, None, <<>>, FALSE)

\* a post whose item raises an error
PostMalformed == FeedPost("m", Some(<<"M">>), FeedDate, None, None, None, None, None, <<>>, TRUE)

\* a post of the file '&.md': its slug, and so its urlPath, holds an ampersand
PostAmpersandSlug == FeedPost("&", Some(<<"Q">>), FeedDate, None, None, None, None, None, <<>>, FALSE)

FeedPosts ==
    {PostSpecials, PostEntities, PostLong, PostEmptyTitle, PostNoDate, PostMalformed,
     PostAmpersandSlug}

\* the longest post list handed to generateRssFeed, but for the list that is
\* one post longer than the default maxItems
MaxFeedPosts == 2

FeedInputs ==
    [posts    : SeqsUpTo(FeedPosts, MaxFeedPosts),
     maxItems : {None} \cup {Some(k) : k \in 0..MaxFeedPosts},
     siteUrl  : {None, Some(OriginOf), Some(OriginOf \o <<"/">>)}]
    \cup {[posts    |-> [i \in 1..(DefaultMaxItems + 1) |-> PostEntities],
           maxItems |-> None,
           siteUrl  |-> Some(OriginOf)]}

NoFeedResult == [fn |-> "none", feed |-> NoFeed]

InitRss ==
    /\ now = 0
    /\ postsCache = [k \in CacheKeys |-> NoEntry]
    /\ calls = <<IdleCall>>
    /\ modules = <<>>
    /\ nextArr = 1
    /\ currentConfig = None
    /\ last = NoReturn
    /\ resp = NoResp
    /\ arg \in FeedInputs
    /\ res = NoFeedResult

\* generateRssFeed(posts, { siteUrl, maxItems })
GenerateRssFeed ==
    /\ res' = [fn   |-> "generateRssFeed",
               feed |-> generateRssFeed(arg.posts, RssOptions(arg.siteUrl, arg.maxItems, None))]
    /\ UNCHANGED <<now, postsCache, calls, modules, nextArr, last, resp, arg, currentConfig>>

NextRss == GenerateRssFeed

SpecRss == InitRss /\ [][NextRss]_vars

\* the posts of the input having a non-empty title and a date
ValidPosts(posts) == SelectSeq(posts, LAMBDA p : IsSome(p.fm.title) /\ The(p.fm.title) /= <<>> /\ IsSome(p.date))

\* the smaller of two numbers
Min(a, b) == IF a < b THEN a ELSE b

\* C9: with a siteUrl, generateRssFeed emits at most maxItems (default 20)
\* items, and exactly min(maxItems, number of posts with title and date)
\* when no item raises an error: the title/date filter comes before the
\* truncation, and the items are in input order.
C9_AtMostMaxItemsFilteredFirst ==
    (res.fn = "generateRssFeed" /\ IsSome(arg.siteUrl) /\ The(arg.siteUrl) /= <<>>) =>
        LET maxItems == IF IsSome(arg.maxItems) THEN The(arg.maxItems) ELSE 20
            valid    == ValidPosts(arg.posts)
            first    == SubSeq(valid, 1, Min(maxItems, Len(valid)))
            emitted  == SelectSeq(first, LAMBDA p : ~p.fm.malformed)
        IN  /\ ~res.feed.threw
            /\ Len(res.feed.items) <= maxItems
            /\ (\A i \in DOMAIN first : ~first[i].fm.malformed) =>
                   Len(res.feed.items) = Min(maxItems, Len(valid))
            /\ [i \in DOMAIN res.feed.items |-> res.feed.items[i].of]
                   = [i \in DOMAIN emitted |-> emitted[i].path]

\* with maxItems 1, a post without title came first and did not take the
\* slot: the one item is the valid post behind it
C9_Witness ==
    /\ res.fn = "generateRssFeed"
    /\ arg.posts = <<PostEmptyTitle, PostSpecials>>
    /\ arg.maxItems = Some(1)
    /\ Len(res.feed.items) = 1
    /\ res.feed.items[1].of = PostSpecials.path

XmlEntities == {<<EntAmp, "&">>, <<EntLt, "<">>, <<EntGt, ">">>, <<EntQuot, "\"">>, <<EntApos, "'">>}

\* the pattern p occurs in s at position i
OccursAt(s, i, p) == i + Len(p) - 1 <= Len(s) /\ \A k \in DOMAIN p : s[i + k - 1] = p[k]

\* the text with each of the five entities replaced back by its character:
\* the first character of an entity becomes the character it stands for and
\* the rest of the entity disappears
Unescape(s) ==
    Concat([i \in DOMAIN s |->
               IF \E e \in XmlEntities : OccursAt(s, i, e[1])
               THEN <<(CHOOSE e \in XmlEntities : OccursAt(s, i, e[1]))[2]>>
               ELSE IF \E e \in XmlEntities : \E k \in 1..(Len(e[1]) - 1) :
                          i - k >= 1 /\ OccursAt(s, i - k, e[1])
               THEN <<>>
               ELSE <<s[i]>>])

\* no raw <, >, " or ' and every & starts one of the five entities
IsEscapedText(s) ==
    \A i \in DOMAIN s :
        /\ s[i] \notin {"<", ">", "\"", "'"}
        /\ s[i] = "&" => \E e \in XmlEntities : OccursAt(s, i, e[1])

\* the post of the input that an item was made of
PostOfItem(item) == CHOOSE p \in Range(arg.posts) : p.path = item.of

\* the categories and tags of a post, each once, in order
TermsOf(post) ==
    Dedup((IF IsSome(post.fm.categories) THEN The(post.fm.categories)
           ELSE IF Truthy(post.fm.category) THEN <<The(post.fm.category)>> ELSE <<>>)
          \o (IF IsSome(post.fm.tags) THEN The(post.fm.tags) ELSE <<>>), {})

\* C10: the text generateRssFeed writes into <title>, <description>,
\* <author> and <category> contains no raw <, >, " or ', every & in it
\* starts one of &amp; &lt; &gt; &quot; &apos;, and replacing the entities
\* back yields the text that was escaped: the title, the excerpt (as
\* getPostExcerpt cuts it to 300 characters), the author name and each
\* category and tag.
C10_ItemTextEscapedAndReversible ==
    res.fn = "generateRssFeed" =>
        \A i \in DOMAIN res.feed.items :
            LET item == res.feed.items[i]
                post == PostOfItem(item)
            IN  /\ IsEscapedText(item.title)
                /\ IsEscapedText(item.description)
                /\ IsEscapedText(item.author)
                /\ \A j \in DOMAIN item.categories : IsEscapedText(item.categories[j])
                /\ Unescape(item.title) = The(post.fm.title)
                /\ (Truthy(post.fm.excerpt) /\ Len(The(post.fm.excerpt)) <= 300) =>
                       Unescape(item.description) = The(post.fm.excerpt)
                /\ Unescape(item.description) =
                       (IF getPostExcerpt(post, 300) /= <<>> THEN getPostExcerpt(post, 300)
                        ELSE NoDescription)
                /\ Unescape(item.author) =
                       (IF Truthy(post.fm.author) THEN The(post.fm.author) ELSE ConfigName)
                /\ [j \in DOMAIN item.categories |-> Unescape(item.categories[j])] = TermsOf(post)

\* the title A<b>&"c' has been written as A&lt;b&gt;&amp;&quot;c&apos; and
\* the title '&amp; &lt;' with its ampersands escaped once more
C10_Witness ==
    /\ res.fn = "generateRssFeed"
    /\ Len(res.feed.items) = 2
    /\ res.feed.items[1].title = <<"A", "&", "l", "t", ";", "b", "&", "g", "t", ";", "&", "a", "m", "p", ";", "&", "q", "u", "o", "t", ";", "c", "&", "a", "p", "o", "s", ";">>
    /\ res.feed.items[2].title = <<"&", "a", "m", "p", ";", "a", "m", "p", ";", " ", "&", "a", "m", "p", ";", "l", "t", ";">>
    /\ res.feed.items[1].author = <<"O", "&", "a", "p", "o", "s", ";", "N", "e", "i", "l", " ", "&", "a", "m", "p", ";", " ", "&", "q", "u", "o", "t", ";", "C", "o", "&", "q", "u", "o", "t", ";">>

\* C11: no string taken from a post or from the options puts a raw <, >, &,
\* " or ' into the document: every element of the channel and of each item,
\* the <link> and <guid> of an item included, holds escaped text only.
C11_AllFeedTextEscaped ==
    (res.fn = "generateRssFeed" /\ ~res.feed.threw) =>
        /\ \A i \in DOMAIN res.feed.channel :
              LET channel == res.feed.channel[i]
              IN  /\ IsEscapedText(channel.title)
                  /\ IsEscapedText(channel.link)
                  /\ IsEscapedText(channel.description)
                  /\ IsEscapedText(channel.language)
                  /\ IsEscapedText(channel.selfLink)
        /\ \A i \in DOMAIN res.feed.items :
              LET item == res.feed.items[i]
              IN  /\ IsEscapedText(item.title)
                  /\ IsEscapedText(item.link)
                  /\ IsEscapedText(item.guid)
                  /\ IsEscapedText(item.description)
                  /\ IsEscapedText(item.author)
                  /\ \A j \in DOMAIN item.categories : IsEscapedText(item.categories[j])

\* ------------------------------------------------------------------------
\* Configuration: secureDeepMerge
\* ------------------------------------------------------------------------

\* a JavaScript value: its type, its number or its text (in pieces), the
\* prototype it was given in place of Object.prototype (<<>>: the ordinary
\* one) and its own enumerable properties, key -> value
JsValue(t, n, str, proto, props) ==
    [t |-> t, n |-> n, str |-> str, proto |-> proto, props |-> props]

JsUndefined == JsValue("undefined", 0, <<>>, <<>>, <<>>)

JsNull == JsValue("null", 0, <<>>, <<>>, <<>>)

JsNumber(n) == JsValue("number", n, <<>>, <<>>, <<>>)

JsString(str) == JsValue("string", 0, <<str>>, <<>>, <<>>)

JsArray(n) == JsValue("array", n, <<>>, <<>>, <<>>)

JsFunction == JsValue("function", 0, <<>>, <<>>, <<>>)

JsObject(props) == JsValue("object", 0, <<>>, <<>>, props)

\* value !== null && typeof value === 'object' && !Array.isArray(value)
isPlainObject(value) == value.t = "object"

dangerousKeys == {"__proto__", "constructor", "prototype"}

\* isSafeKey without its list of dangerous keys
isSafeKeyAllowsAll(key) == key \notin {}

isSafeKey(key) == key \notin dangerousKeys

\* obj[key]: an own property, else what the prototype chain gives
GetProp(obj, key) ==
    IF key \in DOMAIN obj.props THEN obj.props[key]
    ELSE IF obj.proto /= <<>>
         THEN (IF key = "__proto__" THEN obj.proto[1]
               ELSE IF key \in DOMAIN obj.proto[1].props THEN obj.proto[1].props[key]
               ELSE JsUndefined)
         ELSE (IF key = "__proto__" THEN JsObject(<<>>)
               ELSE IF key = "constructor" THEN JsFunction
               ELSE JsUndefined)

\* obj[key] = value: '__proto__' that is not an own property goes through
\* the setter of Object.prototype, which replaces the prototype when the
\* value is an object or null and does nothing otherwise
SetProp(obj, key, value) ==
    IF key = "__proto__" /\ key \notin DOMAIN obj.props
    THEN (IF value.t \in {"object", "array", "function", "null"}
          THEN [obj EXCEPT !.proto = <<value>>]
          ELSE obj)
    ELSE [obj EXCEPT !.props = [k \in DOMAIN obj.props \cup {key} |->
                                   IF k = key THEN value ELSE obj.props[k]]]

RECURSIVE secureDeepMerge(_, _)
RECURSIVE MergeKeysInto(_, _, _)
\* the forEach over Object.keys(source), for the keys still to be visited
MergeKeysInto(result, source, keys) ==
    IF keys = {} THEN result
    ELSE LET key         == CHOOSE k \in keys : TRUE
             sourceValue == source.props[key]
             targetValue == GetProp(result, key)
             targetObj   == IF isPlainObject(targetValue) THEN targetValue ELSE JsObject(<<>>)
             next        == IF ~isSafeKey(key) THEN result
                            ELSE IF isPlainObject(sourceValue)
                            THEN SetProp(result, key, secureDeepMerge(targetObj, sourceValue))
                            ELSE SetProp(result, key, sourceValue)
         IN  MergeKeysInto(next, source, keys \ {key})

\* secureDeepMerge(target, source): a new object holding the own
\* properties of target, with the safe keys of a plain-object source merged in
secureDeepMerge(target, source) ==
    LET result == JsObject(target.props)
    IN  IF isPlainObject(source) THEN MergeKeysInto(result, source, DOMAIN source.props)
        ELSE result

\* the objects with at most n of the keys, each holding one of the values
ObjectsOver(keys, values, n) ==
    {JsObject(props) : props \in UNION {[ks -> values] : ks \in {S \in SUBSET keys : Cardinality(S) <= n}}}

MergeKeys == {"a", "b", "__proto__", "constructor", "prototype"}

InnerKeys == {"a", "__proto__", "constructor"}

MergeScalars == {JsNumber(1), JsNull, JsArray(1)}

\* the keys an overlay object may hold at its top level
MaxOverlayKeys == 2

InnerObjects == ObjectsOver(InnerKeys, MergeScalars, 1)

\* overlays of any shape: not an object at all, or an object of up to
\* MaxOverlayKeys keys holding scalars, arrays and nested objects
Overlays ==
    {JsUndefined, JsNull, JsNumber(2), JsArray(2)}
    \cup ObjectsOver(MergeKeys, MergeScalars \cup InnerObjects, MaxOverlayKeys)

\* base records: empty, with scalar, array and nested members, and one
\* that itself holds the three keys as own properties (as JSON.parse gives)
MergeBases ==
    {JsObject(<<>>),
     JsObject([k \in {"a", "b"} |->
                  IF k = "a" THEN JsObject([j \in {"a", "b"} |-> JsNumber(7)]) ELSE JsNumber(8)]),
     JsObject([k \in {"a", "b"} |-> IF k = "a" THEN JsArray(3) ELSE JsObject(<<>>)]),
     JsObject([k \in {"a", "__proto__", "constructor", "prototype"} |->
                  IF k = "a" THEN JsObject([j \in {"constructor"} |-> JsNumber(9)])
                  ELSE JsNumber(5)])}

MergeInputs == [target : MergeBases, source : Overlays]

NoMergeResult == [fn |-> "none", value |-> JsUndefined]

InitMerge ==
    /\ now = 0
    /\ postsCache = [k \in CacheKeys |-> NoEntry]
    /\ calls = <<IdleCall>>
    /\ modules = <<>>
    /\ nextArr = 1
    /\ currentConfig = None
    /\ last = NoReturn
    /\ resp = NoResp
    /\ arg \in MergeInputs
    /\ res = NoMergeResult

\* secureDeepMerge(target, source)
SecureDeepMerge ==
    /\ res' = [fn |-> "secureDeepMerge", value |-> secureDeepMerge(arg.target, arg.source)]
    /\ UNCHANGED <<now, postsCache, calls, modules, nextArr, last, resp, arg, currentConfig>>

NextMerge == SecureDeepMerge

SpecMerge == InitMerge /\ [][NextMerge]_vars

RECURSIVE MergedSafely(_, _, _)
\* result is what merging source into target must give: an ordinary object
\* whose keys are those of target and the keys of source other than
\* __proto__, constructor and prototype; a key that source does not safely
\* supply keeps target's value; a supplied plain object is merged in the
\* same way into target's member (or into an empty object), and any other
\* supplied value replaces the member wholesale
MergedSafely(result, target, source) ==
    LET supplied == IF source.t = "object" THEN DOMAIN source.props \ dangerousKeys ELSE {}
    IN  /\ result.t = "object"
        /\ result.proto = <<>>
        /\ DOMAIN result.props = DOMAIN target.props \cup supplied
        /\ \A k \in DOMAIN result.props \ supplied : result.props[k] = target.props[k]
        /\ \A k \in supplied :
              IF source.props[k].t = "object"
              THEN MergedSafely(result.props[k],
                                IF k \in DOMAIN target.props /\ target.props[k].t = "object"
                                THEN target.props[k] ELSE JsObject(<<>>),
                                source.props[k])
              ELSE result.props[k] = source.props[k]

\* C12: for every base record and every overlay, the result of
\* secureDeepMerge, and every nested object it creates, is an ordinary
\* object that has __proto__, constructor or prototype as an own key only
\* where the base had it (with the base's value); every other overlay key
\* is merged, plain objects recursively, arrays and scalars by replacement.
C12_MergeSkipsDangerousKeys ==
    res.fn = "secureDeepMerge" =>
        /\ MergedSafely(res.value, arg.target, arg.source)
        /\ \A k \in dangerousKeys :
              k \in DOMAIN res.value.props =>
                  k \in DOMAIN arg.target.props /\ res.value.props[k] = arg.target.props[k]

\* an overlay with an own __proto__ key holding an object, and a member
\* 'a' that holds a constructor key, has been merged into a base whose 'a'
\* is an object: 'a' kept the base's members and gained nothing
C12_Witness ==
    /\ res.fn = "secureDeepMerge"
    /\ arg.source.t = "object"
    /\ DOMAIN arg.source.props = {"__proto__", "a"}
    /\ arg.source.props["__proto__"].t = "object"
    /\ DOMAIN arg.source.props["__proto__"].props = {"a"}
    /\ DOMAIN arg.source.props["a"].props = {"constructor"}
    /\ DOMAIN arg.target.props = {"a", "b"}
    /\ arg.target.props["a"].t = "object"
    /\ res.value.props["a"] = arg.target.props["a"]
    /\ res.value.proto = <<>>

\* ------------------------------------------------------------------------
\* Configuration: initBlogConfig, getBlogConfig, the blogConfig proxy
\* ------------------------------------------------------------------------

\* an object literal, from its key/value pairs
ObjectOf(pairs) ==
    JsObject([k \in {pair[1] : pair \in Range(pairs)} |->
                 (CHOOSE pair \in Range(pairs) : pair[1] = k)[2]])

\* defaultBlogConfig: its basic and versioning fields and, of its nested
\* groups, posts (with posts.readTime), images and pagination
defaultBlogConfig ==
    ObjectOf(<<
        <<"name", JsString("Blog")>>,
        <<"uri", JsString("/blog")>>,
        <<"version", JsString("1.2.0")>>,
        <<"lastUpdated", JsString("2025-05-17")>>,
        <<"posts", ObjectOf(<<
            <<"excerptLength", JsNumber(160)>>,
            <<"readTime", ObjectOf(<<
                <<"wordsPerMinute", JsNumber(225)>>,
                <<"defaultTime", JsNumber(3)>> >>)>> >>)>>,
        <<"images", ObjectOf(<<
            <<"defaultWidths", JsArray(3)>>,
            <<"defaultQuality", JsNumber(80)>> >>)>>,
        <<"pagination", ObjectOf(<<
            <<"postsPerPage", JsNumber(10)>>,
            <<"postsPerBatch", JsNumber(6)>> >>)>> >>)

\* initBlogConfig(userConfig): userConfig = {} when the argument is undefined
initBlogConfig(userConfig) ==
    secureDeepMerge(defaultBlogConfig,
                    IF userConfig.t = "undefined" THEN JsObject(<<>>) ELSE userConfig)

\* the object getBlogConfig() returns: the current configuration, or a
\* shallow copy of the defaults that it installs when there is none
getBlogConfig == IF currentConfig = None THEN JsObject(defaultBlogConfig.props) ELSE The(currentConfig)

\* String(value) inside a template literal, for the values version and
\* lastUpdated take here: strings, null, undefined and plain objects
ToText(value) ==
    CASE value.t = "string"    -> value.str
      [] value.t = "null"      -> <<"null">>
      [] value.t = "undefined" -> <<"undefined">>
      [] value.t = "object"    -> <<"[object Object]">>
      [] OTHER                 -> <<value.t>>

\* getBlogVersion(): { version, lastUpdated, versionString }
getBlogVersion(config) ==
    ObjectOf(<<
        <<"version", GetProp(config, "version")>>,
        <<"lastUpdated", GetProp(config, "lastUpdated")>>,
        <<"versionString",
          JsValue("string", 0,
                  <<"Blog Framework v">> \o ToText(GetProp(config, "version")) \o <<" (">>
                      \o ToText(GetProp(config, "lastUpdated")) \o <<")">>,
                  <<>>, <<>>)>> >>)

\* the overlays initBlogConfig is called with: none, empty, a scalar field,
\* fields inside a nested group at one and two levels, and a null, a
\* number, undefined and an array in the place of a nested group
UserConfigs ==
    {JsUndefined,
     JsObject(<<>>),
     ObjectOf(<< <<"name", JsString("Mine")>> >>),
     ObjectOf(<< <<"pagination", ObjectOf(<< <<"postsPerBatch", JsNumber(1)>> >>)>> >>),
     ObjectOf(<< <<"posts", ObjectOf(<< <<"readTime", ObjectOf(<< <<"defaultTime", JsNumber(9)>> >>)>> >>)>> >>),
     ObjectOf(<< <<"pagination", JsNull>> >>),
     ObjectOf(<< <<"posts", JsNumber(5)>> >>),
     ObjectOf(<< <<"posts", ObjectOf(<< <<"readTime", JsUndefined>> >>)>> >>),
     ObjectOf(<< <<"images", JsArray(4)>> >>)}

\* the properties read and assigned through the blogConfig proxy
ProxyProps == {"name", "pagination", "theme"}

\* the values assigned through the blogConfig proxy
ProxyValues == {JsString("Set"), JsNull}

NoConfigResult == [fn |-> "none", value |-> JsUndefined]

ConfigCall(fn, userConfig, prop, value) ==
    [fn |-> fn, userConfig |-> userConfig, prop |-> prop, value |-> value]

InitConfig ==
    /\ now = 0
    /\ postsCache = [k \in CacheKeys |-> NoEntry]
    /\ calls = <<IdleCall>>
    /\ modules = <<>>
    /\ nextArr = 1
    /\ currentConfig = None
    /\ last = NoReturn
    /\ resp = NoResp
    /\ arg = ConfigCall("none", JsUndefined, "", JsUndefined)
    /\ res = NoConfigResult

\* initBlogConfig(userConfig)
InitBlogConfig(userConfig) ==
    /\ arg' = ConfigCall("initBlogConfig", userConfig, "", JsUndefined)
    /\ currentConfig' = Some(initBlogConfig(userConfig))
    /\ res' = [fn |-> "initBlogConfig", value |-> initBlogConfig(userConfig)]
    /\ UNCHANGED <<now, postsCache, calls, modules, nextArr, last, resp>>

\* getBlogConfig()
GetBlogConfig ==
    /\ arg' = ConfigCall("getBlogConfig", JsUndefined, "", JsUndefined)
    /\ currentConfig' = Some(getBlogConfig)
    /\ res' = [fn |-> "getBlogConfig", value |-> getBlogConfig]
    /\ UNCHANGED <<now, postsCache, calls, modules, nextArr, last, resp>>

\* getBlogVersion()
GetBlogVersion ==
    /\ arg' = ConfigCall("getBlogVersion", JsUndefined, "", JsUndefined)
    /\ currentConfig' = Some(getBlogConfig)
    /\ res' = [fn |-> "getBlogVersion", value |-> getBlogVersion(getBlogConfig)]
    /\ UNCHANGED <<now, postsCache, calls, modules, nextArr, last, resp>>

\* blogConfig[prop]: the get trap of the proxy
ProxyGet(prop) ==
    /\ arg' = ConfigCall("blogConfig.get", JsUndefined, prop, JsUndefined)
    /\ currentConfig' = Some(getBlogConfig)
    /\ res' = [fn |-> "blogConfig.get", value |-> GetProp(getBlogConfig, prop)]
    /\ UNCHANGED <<now, postsCache, calls, modules, nextArr, last, resp>>

\* blogConfig[prop] = value: the set trap of the proxy writes the property
\* onto the object getBlogConfig() returns
ProxySet(prop, value) ==
    /\ arg' = ConfigCall("blogConfig.set", JsUndefined, prop, value)
    /\ currentConfig' = Some(SetProp(getBlogConfig, prop, value))
    /\ res' = [fn |-> "blogConfig.set", value |-> value]
    /\ UNCHANGED <<now, postsCache, calls, modules, nextArr, last, resp>>

NextConfig ==
    \/ \E userConfig \in UserConfigs : InitBlogConfig(userConfig)
    \/ GetBlogConfig
    \/ GetBlogVersion
    \/ \E prop \in ProxyProps : ProxyGet(prop)
    \/ \E prop \in ProxyProps, value \in ProxyValues : ProxySet(prop, value)

SpecConfig == InitConfig /\ [][NextConfig]_vars

RECURSIVE Populated(_, _, _)
\* config holds every field of defaults that user does not itself supply,
\* at every depth, with its default value
Populated(config, defaults, user) ==
    /\ config.t = "object"
    /\ \A k \in DOMAIN defaults.props :
          LET supplied == user.t = "object" /\ k \in DOMAIN user.props
          IN  /\ k \in DOMAIN config.props
              /\ IF defaults.props[k].t = "object"
                 THEN Populated(config.props[k], defaults.props[k],
                                IF supplied THEN user.props[k] ELSE JsUndefined)
                 ELSE ~supplied => config.props[k] = defaults.props[k]

\* C13: after initBlogConfig(userConfig) the configuration holds every
\* field of defaultBlogConfig, at every depth, that the user input does not
\* itself supply, with its default value - also when the user input has a
\* scalar, null, undefined or an array in the place of a nested group.
C13_ConfigFullyPopulated ==
    res.fn = "initBlogConfig" =>
        /\ currentConfig = Some(res.value)
        /\ Populated(res.value, defaultBlogConfig, arg.userConfig)

\* what getBlogConfig() would return now
ConfigView == getBlogConfig

\* C14: the values getBlogConfig returns change only in an initBlogConfig
\* step: getBlogConfig and getBlogVersion calls, and reads and assignments
\* through the blogConfig proxy, leave them as they are.
C14_ConfigChangesOnlyByInit ==
    [][ConfigView' /= ConfigView => arg'.fn = "initBlogConfig"]_vars

\* ------------------------------------------------------------------------
\* The post pipeline: getAllPosts over varying content directories
\* ------------------------------------------------------------------------

\* a file without a title in its frontmatter, with a valid date
FileUntitled ==
    PostFile(<<"b", "/", "u", ".", "m", "d">>,
             [Meta(None, Some(DateOf(2024, 7, 4)), None, None, None, Some(<<sReact>>))
                 EXCEPT !.readTime = Some(2)],
             <<"u">>)

\* a file named after its path, with a German localization
FileLocalized ==
    PostFile(<<"b", "/", "l", ".", "m", "d">>,
             [Meta(Some(<<"L">>), Some(DateOf(2024, 3, 15)), None, None, None, None)
                 EXCEPT !.readTime = Some(1),
                        !.i18n = <<[lang |-> "de",
                                    data |-> [title |-> Some(<<"E">>), categories |-> None,
                                              tags |-> None]]>>],
             <<"l">>)

PipelineFiles == {FileB, FileNoDate, FileBadDate, FileUntitled, FileLocalized}

\* the files one content directory holds at most
MaxModules == 3

\* import.meta.glob results: up to MaxModules files, each path once, in any
\* order
PipelineModuleChoices ==
    {files \in UNION {[1..n -> PipelineFiles] : n \in 0..MaxModules} :
        \A i, j \in DOMAIN files : i /= j => files[i] /= files[j]}

PipelineOptions ==
    {OptionsOf(None, None, None),
     OptionsOf(Some("de"), None, None),
     OptionsOf(None, Some(TRUE), Some(TRUE))}

InitPosts == InitWith(PipelineModuleChoices)

NextPosts ==
    \/ \E options \in PipelineOptions : GetAllPosts(options)
    \/ \E i \in 1..MaxInflight : Settled(i)

SpecPosts == InitPosts /\ [][NextPosts]_vars

\* the list the getAllPosts call of the step just taken returned
Returned == postsCache[cacheKey(last.triple)].posts

\* the module a post was made from
ModuleOf(post) == CHOOSE k \in DOMAIN modules : modules[k].path = post.path

\* name with a trailing '.md' taken off
WithoutMd(name) ==
    IF endsWith(name, <<".", "m", "d">>) THEN SubSeq(name, 1, Len(name) - 3) ELSE name

\* the last segment of a path
LastSegment(path) == SplitSlash(path)[Len(SplitSlash(path))]

\* the date of module k is present and parses
HasValidDate(k) == IsSome(modules[k].metadata.date) /\ The(modules[k].metadata.date).valid

\* C15: the list getAllPosts returns holds only posts with a valid date and
\* urlPath = '/' + year + '/' + two-digit month + '/' + slug, the slug being
\* the frontmatter slug when there is one and the file name without '.md'
\* otherwise; it is sorted by date, newest first; a module with a missing or
\* unparsable date is left out and every other module is still in the list.
C15_ProcessedListWellFormed ==
    (last.op = "getAllPosts" /\ last.ok) =>
        /\ \A i \in DOMAIN Returned :
              LET post == Returned[i]
                  file == modules[ModuleOf(post)]
                  slug == IF IsSome(file.metadata.slug) /\ The(file.metadata.slug) /= <<>>
                          THEN The(file.metadata.slug)
                          ELSE WithoutMd(LastSegment(file.path))
              IN  /\ \E k \in DOMAIN modules : modules[k].path = post.path
                  /\ IsSome(post.date) /\ The(post.date).valid
                  /\ post.urlPath = <<"/">> \o Year4(The(post.date).year) \o <<"/">>
                                    \o Pad2(The(post.date).month) \o <<"/">> \o slug
                  /\ Len(Pad2(The(post.date).month)) = 2
        /\ \A i, j \in DOMAIN Returned :
              i < j => getTime(The(Returned[i].date)) >= getTime(The(Returned[j].date))
        /\ \A k \in DOMAIN modules :
              HasValidDate(k) <=> \E i \in DOMAIN Returned : Returned[i].path = modules[k].path

\* a freshly computed list that left out a module with an unparsable date
\* standing first in the directory and one without a date, and kept a post
\* with a frontmatter slug and, or, one named after its file, out of
\* directory order
C15_Witness ==
    /\ last.op = "getAllPosts" /\ last.ok /\ ~last.fromCache
    /\ Len(modules) = MaxModules
    /\ ~HasValidDate(1)
    /\ \E k \in DOMAIN modules : HasValidDate(k)
    /\ Len(Returned) >= 1
    /\ \E i \in DOMAIN Returned : ~IsSome(Returned[i].fm.slug)

\* C16: a post whose metadata lacks a title is not in the list getAllPosts
\* returns, as a post without a date is not.
C16_UntitledPostsExcluded ==
    (last.op = "getAllPosts" /\ last.ok) =>
        \A i \in DOMAIN Returned :
            /\ IsSome(Returned[i].date)
            /\ IsSome(Returned[i].fm.title)

\* ------------------------------------------------------------------------
\* Read times across getAllPosts calls
\* ------------------------------------------------------------------------

\* a file that leaves its read time to be estimated: an excerpt of two
\* words, a body with a heading and three more words
FileEstimate ==
    PostFile(<<"b", "/", "e", ".", "m", "d">>,
             [Meta(Some(<<"E">>), Some(DateOf(2024, 5, 1)), None, None, None, None)
                 EXCEPT !.excerpt = Some(<<"a", "n", " ", "e">>)],
             <<"#", " ", "T", "\n", "\n", "w", " ", "<", "b", ">", "x", "<", "/", "b", ">", " ", "y">>)

\* the content directory as it is on disk
ReadTimeSources == <<FileEstimate, FileA>>

ReadTimeOptions ==
    {OptionsOf(None, None, None),
     OptionsOf(None, Some(TRUE), None),
     OptionsOf(Some("de"), Some(TRUE), None)}

InitReadTime == InitWith({ReadTimeSources})

NextReadTime ==
    \/ \E options \in ReadTimeOptions : GetAllPosts(options)
    \/ \E i \in 1..MaxInflight : Settled(i)
    \/ ClearBlogCache
    \/ Tick

SpecReadTime == InitReadTime /\ [][NextReadTime]_vars

\* the file on disk a post was made from
SourceOf(post) ==
    ReadTimeSources[CHOOSE k \in DOMAIN ReadTimeSources : ReadTimeSources[k].path = post.path]

\* the read time of a post as its source and the call's includeContent
\* determine it
ReadTimeFromSource(file, includeContent) ==
    IF IsSome(file.metadata.readTime) THEN The(file.metadata.readTime)
    ELSE IF includeContent /\ file.body /= <<>> THEN calculateReadTime(file.body)
    ELSE IF Truthy(file.metadata.excerpt)
    THEN Max(3 * calculateReadTime(The(file.metadata.excerpt)), DefaultTime)
    ELSE DefaultTime

\* C17: the read time getAllPosts reports for a post depends only on the
\* post's source and the arguments of the call: an explicit frontmatter
\* readTime as it is, otherwise the estimate from the body when the call
\* includes content and the tripled excerpt estimate (or the default)
\* when it does not, whatever calls ran before.
C17_ReadTimeIndependentOfEarlierCalls ==
    (last.op = "getAllPosts" /\ last.ok) =>
        \A i \in DOMAIN Returned :
            Returned[i].fm.readTime =
                Some(ReadTimeFromSource(SourceOf(Returned[i]), last.triple.includeContent))

\* ------------------------------------------------------------------------
\* slugify as a function of its argument
\* ------------------------------------------------------------------------

\* a lower-case letter, an upper-case letter, a digit, the underscore, the
\* hyphen, a blank and a punctuation mark
SlugAlphabet == {"a", "B", "1", "_", "-", " ", "!"}

\* the length of the strings slugify is applied to
MaxSlugLen == 4

SlugInputs == UNION {[1..n -> SlugAlphabet] : n \in 0..MaxSlugLen}

NoSlugResult == [fn |-> "none", value |-> <<>>]

InitSlug ==
    /\ now = 0
    /\ postsCache = [k \in CacheKeys |-> NoEntry]
    /\ calls = <<IdleCall>>
    /\ modules = <<>>
    /\ nextArr = 1
    /\ currentConfig = None
    /\ last = NoReturn
    /\ resp = NoResp
    /\ arg \in [text : SlugInputs]
    /\ res = NoSlugResult

\* slugify(text)
Slugify ==
    /\ res' = [fn |-> "slugify", value |-> slugify(arg.text)]
    /\ UNCHANGED <<now, postsCache, calls, modules, nextArr, last, resp, arg, currentConfig>>

NextSlug == Slugify

SpecSlug == InitSlug /\ [][NextSlug]_vars

\* C18: slugify is idempotent, slugify(slugify(x)) = slugify(x), and its
\* result holds only lower-case word characters and hyphens and never two
\* hyphens in a row.
C18_SlugifyIdempotent ==
    res.fn = "slugify" =>
        /\ slugify(res.value) = res.value
        /\ \A i \in DOMAIN res.value :
              /\ IsWordChar(res.value[i]) \/ res.value[i] = "-"
              /\ res.value[i] \notin UpperSet
        /\ \A i \in 1..(Len(res.value) - 1) : ~(res.value[i] = "-" /\ res.value[i + 1] = "-")

\* a text of full length with an upper-case letter, a blank next to a
\* hyphen and punctuation, all of which slugify changed
C18_Witness ==
    /\ res.fn = "slugify"
    /\ arg.text = <<"B", " ", "-", "!">>
    /\ res.value = <<"b", "-">>

\* C19: a slug that is not empty neither begins nor ends with a hyphen,
\* also when the text begins or ends with a hyphen or with punctuation set
\* off by whitespace.
C19_NoLeadingOrTrailingHyphen ==
    (res.fn = "slugify" /\ res.value /= <<>>) =>
        /\ Head(res.value) /= "-"
        /\ res.value[Len(res.value)] /= "-"

\* ------------------------------------------------------------------------
\* Messages: the getter createMessageGetter returns
\* ------------------------------------------------------------------------

\* a MessageValue, or what a lookup or a call yields: undefined, a string,
\* a function that returns or one that throws, a nested record, and the
\* value a function named str returned when called with args
MsgValue(t, str, args, props) == [t |-> t, str |-> str, args |-> args, props |-> props]

MsgUndefined == MsgValue("undefined", "", <<>>, <<>>)

MsgString(str) == MsgValue("string", str, <<>>, <<>>)

MsgFunction(name) == MsgValue("function", name, <<>>, <<>>)

MsgThrowing(name) == MsgValue("throwing", name, <<>>, <<>>)

MsgObject(props) == MsgValue("object", "", <<>>, props)

\* userMsg(...args)
Called(fn, args) == MsgValue("returned", fn.str, args, <<>>)

\* typeof value === 'function'
IsCallable(value) == value.t \in {"function", "throwing"}

\* the properties every object literal inherits from Object.prototype
ObjectPrototype == [k \in {"toString", "hasOwnProperty"} |-> MsgFunction(k)]

\* messages[key]: an own property, else an inherited one, else undefined
MsgLookup(messages, key) ==
    IF key \in DOMAIN messages THEN messages[key]
    ELSE IF key \in DOMAIN ObjectPrototype THEN ObjectPrototype[key]
    ELSE MsgUndefined

\* defaultMessages, in part: two strings and a function
defaultMessages ==
    [k \in {"readMore", "tags", "minRead"} |->
        IF k = "readMore" THEN MsgString("Read more")
        ELSE IF k = "tags" THEN MsgString("Tags")
        ELSE MsgFunction("minRead")]

\* fallback ?? other
FallbackElse(fallback, other) ==
    IF IsSome(fallback) THEN MsgString(The(fallback)) ELSE MsgString(other)

\* fallback || other
FallbackOr(fallback, other) ==
    IF IsSome(fallback) /\ The(fallback) /= "" THEN MsgString(The(fallback)) ELSE MsgString(other)

\* a message that is a function: its value when called, or fallback || key
\* when it throws
CallMessage(msg, key, fallback, args) ==
    IF msg.t = "throwing" THEN FallbackOr(fallback, key) ELSE Called(msg, args)

\* the getter createMessageGetter(messages) returns, applied to key,
\* fallback and args
get(messages, key, fallback, args) ==
    LET userMsg    == MsgLookup(messages, key)
        defaultMsg == MsgLookup(defaultMessages, key)
        nestedKey  == IF args = <<>> THEN "" ELSE args[1]
    IN  IF key \in {"__proto__", "constructor"} THEN FallbackOr(fallback, "INVALID_KEY")
        ELSE IF userMsg /= MsgUndefined
        THEN IF IsCallable(userMsg) THEN CallMessage(userMsg, key, fallback, args) ELSE userMsg
        ELSE IF defaultMsg /= MsgUndefined
        THEN IF IsCallable(defaultMsg) THEN CallMessage(defaultMsg, key, fallback, args)
             ELSE IF /\ defaultMsg.t = "object"
                     /\ args /= <<>>
                     /\ nestedKey \notin {"__proto__", "constructor"}
                     /\ MsgLookup(defaultMsg.props, nestedKey) /= MsgUndefined
             THEN MsgLookup(defaultMsg.props, nestedKey)
             ELSE defaultMsg
        ELSE FallbackOr(fallback, key)

\* the tables handed to createMessageGetter
UserMessageTables ==
    {<<>>,
     [k \in {"readMore"} |-> MsgString("More")],
     [k \in {"minRead", "greet"} |-> IF k = "minRead" THEN MsgThrowing("userMinRead")
                                     ELSE MsgFunction("greet")],
     [k \in {"tags", "fail"} |-> IF k = "tags" THEN MsgFunction("userTags")
                                 ELSE MsgThrowing("fail")]}

MessageKeys ==
    {"readMore", "tags", "minRead", "greet", "fail", "missing", "toString", "__proto__",
     "constructor"}

\* no fallback, the empty string, a text
Fallbacks == {None, Some(""), Some("fb")}

MessageArgs == {<<>>, <<"5">>}

MessageInputs ==
    [messages : UserMessageTables, key : MessageKeys, fallback : Fallbacks, args : MessageArgs]

NoMessageResult == [fn |-> "none", value |-> MsgUndefined]

InitMessages ==
    /\ now = 0
    /\ postsCache = [k \in CacheKeys |-> NoEntry]
    /\ calls = <<IdleCall>>
    /\ modules = <<>>
    /\ nextArr = 1
    /\ currentConfig = None
    /\ last = NoReturn
    /\ resp = NoResp
    /\ arg \in MessageInputs
    /\ res = NoMessageResult

\* createMessageGetter(messages)(key, fallback, ...args)
GetMessage ==
    /\ res' = [fn |-> "get", value |-> get(arg.messages, arg.key, arg.fallback, arg.args)]
    /\ UNCHANGED <<now, postsCache, calls, modules, nextArr, last, resp, arg, currentConfig>>

NextMessages == GetMessage

SpecMessages == InitMessages /\ [][NextMessages]_vars

\* C20: get(key, fallback, ...args) resolves in a fixed order: the entry of
\* userMessages for key wins over the built-in default; a callable entry is
\* invoked with args and, if it throws, the result is the fallback; for a
\* string key defined in neither table the result is the fallback whenever
\* one was given, whatever its value, and the key only when none was given.
C20_GetterResolution ==
    (res.fn = "get" /\ arg.key \notin {"__proto__", "constructor"}) =>
        LET inUser    == arg.key \in DOMAIN arg.messages
            inDefault == arg.key \in DOMAIN defaultMessages
            entry     == IF inUser THEN arg.messages[arg.key] ELSE defaultMessages[arg.key]
        IN  IF inUser \/ inDefault
            THEN IF entry.t = "throwing" THEN res.value = FallbackElse(arg.fallback, arg.key)
                 ELSE IF entry.t = "function" THEN res.value = Called(entry, arg.args)
                 ELSE res.value = entry
            ELSE res.value = FallbackElse(arg.fallback, arg.key)

\* ------------------------------------------------------------------------
\* Further properties of the route handlers
\* ------------------------------------------------------------------------

\* C21: the index handler's load returns index page data whose posts are the
\* first min(n, batch) elements of allPosts, batch being
\* pagination.postsPerBatch, or 6 when that is absent or 0; allPosts is the
\* complete pipeline result for the language resolved from
\* locals.paraglideLocale (else 'en'); totalPosts is the length of allPosts;
\* hasMorePosts is true exactly when totalPosts exceeds batch, that is,
\* exactly when posts is shorter than allPosts.
C21_IndexPageIsFirstBatch ==
    (resp.caller.loader = "loadBlogIndex" /\ resp.settled = "resolved") =>
        LET page  == resp.page
            batch == IF IsSome(arg.config) /\ The(arg.config) /= 0 THEN The(arg.config) ELSE 6
            lang  == IF IsSome(arg.paraglideLocale) THEN The(arg.paraglideLocale) ELSE "en"
        IN  /\ page.pageType = "index"
            /\ page.allPosts = LoadPosts(modules, lang, FALSE, FALSE)
            /\ page.posts = SubSeq(page.allPosts, 1, Min(Len(page.allPosts), batch))
            /\ page.totalPosts = Len(page.allPosts)
            /\ page.hasMorePosts <=> page.totalPosts > batch
            /\ page.hasMorePosts <=> Len(page.posts) < Len(page.allPosts)

\* an index page for the locale 'de' under postsPerBatch = 1: one post of
\* two, with more to come
C21_Witness ==
    /\ resp.caller.loader = "loadBlogIndex" /\ resp.settled = "resolved"
    /\ arg.config = Some(1) /\ arg.paraglideLocale = Some("de")
    /\ Len(resp.page.posts) = 1 /\ resp.page.totalPosts = 2 /\ resp.page.hasMorePosts

\* ------------------------------------------------------------------------
\* Concurrent getAllPosts calls and clearBlogCache, within one TTL span
\* ------------------------------------------------------------------------

\* the getAllPosts calls that may await their loaders at the same time when
\* requests arrive together
StormCalls == 2

\* the options of the concurrent calls: two cache keys
StormOptions == {OptionsOf(None, None, None), OptionsOf(None, Some(TRUE), None)}

\* res records, for the study of clearBlogCache: the slots whose call was
\* awaiting its loaders when the cache was last cleared, and the arrays
\* stored by such calls
NoneOvertaken == [overtaken |-> {}, stale |-> {}]

InitStorm ==
    /\ now = 0
    /\ postsCache = [k \in CacheKeys |-> NoEntry]
    /\ calls = [i \in 1..StormCalls |-> IdleCall]
    /\ modules \in CacheModuleChoices
    /\ nextArr = 1
    /\ currentConfig = None
    /\ last = NoReturn
    /\ resp = NoResp
    /\ arg = <<>>
    /\ res = NoneOvertaken

\* Promise.all settles for the call in slot i
StormSettled(i) ==
    /\ SettledLoad(i)
    /\ res' = [overtaken |-> res.overtaken \ {i},
               stale     |-> IF i \in res.overtaken /\ nextArr' /= nextArr
                             THEN res.stale \cup {nextArr} ELSE res.stale]

\* clearBlogCache() while calls may be awaiting their loaders
StormClear ==
    /\ ClearedCache
    /\ res' = [res EXCEPT !.overtaken = {i \in DOMAIN calls : calls[i].pc = "loading"}]

NextStorm ==
    \/ \E options \in StormOptions : GetAllPosts(options)
    \/ \E i \in 1..StormCalls : StormSettled(i)
    \/ StormClear

SpecStorm == InitStorm /\ [][NextStorm]_vars

\* C22: concurrent getAllPosts calls with the same arguments each run their
\* own load; the cache entry of a key is at every moment absent or the
\* complete sorted list of the content directory, and a call that loaded
\* returns the array it has just computed and stored, an array no earlier
\* call returned.
C22_EachLoadStoresItsOwnCompleteList ==
    /\ \A k \in CacheKeys :
          postsCache[k].present =>
              /\ postsCache[k].posts = LoadPosts(modules, k[1], k[2], k[3])
              /\ postsCache[k].arr \in 1..(nextArr - 1)
    /\ (last.op = "getAllPosts" /\ last.ok /\ ~last.fromCache) =>
          /\ last.discovery
          /\ last.arr = nextArr - 1
          /\ last.replaced /= last.arr
          /\ postsCache[cacheKey(last.triple)].arr = last.arr

\* two calls for the default key were awaiting their loaders together: the
\* second to settle replaces, at the same instant, the entry the first stored
C22_Witness ==
    /\ last.op = "getAllPosts" /\ last.ok /\ ~last.fromCache
    /\ last.triple = Defaulted(OptionsOf(None, None, None))
    /\ last.replaced = 1 /\ last.arr = 2
    /\ now = 0
    /\ res.stale = {}

\* C23: a getAllPosts call never returns from the cache a list whose load
\* had begun before the latest clearBlogCache.
C23_NoListFromBeforeTheClear ==
    (last.op = "getAllPosts" /\ last.ok /\ last.fromCache) => last.arr \notin res.stale

\* C26: a getAllPosts call that rejects, because getBlogPostFiles threw or a
\* loader rejected, leaves every cache entry as it was: nothing is added,
\* replaced or refreshed, and no array is handed out.
C26_FailureLeavesCache ==
    [][(last'.op = "getAllPosts" /\ ~last'.ok) =>
          /\ postsCache' = postsCache
          /\ nextArr' = nextArr
          /\ last'.arr = 0 /\ ~last'.fromCache]_vars

\* a load for a key whose entry had expired has just been rejected
C26_Witness ==
    /\ last.op = "getAllPosts" /\ ~last.ok
    /\ postsCache[cacheKey(last.triple)].present
    /\ now - postsCache[cacheKey(last.triple)].timestamp >= CACHE_TTL
    /\ \A i \in DOMAIN calls : calls[i].pc = "idle"

\* ------------------------------------------------------------------------
\* Cache entries and the module metadata their posts share
\* ------------------------------------------------------------------------

\* metadata: { fm: postModule.metadata }: the base post of a file holds the
\* module's metadata object itself; a localization holds a copy
SharesModuleMetadata(post) == post.lang = "en"

\* the metadata object of the module a post was made from, among mods
SharedMetadata(post, mods) ==
    mods[CHOOSE k \in DOMAIN mods : mods[k].path = post.path].metadata

\* a stored list as a reader finds it: the array as stored, with the base
\* posts' frontmatter read through the modules' metadata objects
EntryView(entry, mods) ==
    [i \in DOMAIN entry.posts |->
        IF SharesModuleMetadata(entry.posts[i])
        THEN [entry.posts[i] EXCEPT !.fm = SharedMetadata(entry.posts[i], mods)]
        ELSE entry.posts[i]]

Ref(a) == JsValue("ref", a, <<>>, <<>>, <<>>)

IsRef(value) == value.t = "ref"

\* props with props[key] = value
Extend(props, key, value) ==
    [k \in DOMAIN props \cup {key} |-> IF k = key THEN value ELSE props[k]]

\* object[key] = value for the object at address a
Write(h, a, key, value) == [h EXCEPT ![a] = Extend(@, key, value)]

RECURSIVE Stored(_, _)
RECURSIVE StoredProps(_, _, _, _)
\* the store after the properties of an object literal have been evaluated
StoredProps(h, props, keys, done) ==
    IF keys = {} THEN [heap |-> h, props |-> done]
    ELSE StoredProps(Stored(h, props[CHOOSE k \in keys : TRUE]).heap, props,
                     keys \ {CHOOSE k \in keys : TRUE},
                     Extend(done, CHOOSE k \in keys : TRUE,
                            Stored(h, props[CHOOSE k \in keys : TRUE]).value))

\* the store after a literal has been evaluated, and the value it yields
Stored(h, value) ==
    IF value.t /= "object" THEN [heap |-> h, value |-> value]
    ELSE [heap  |-> Append(StoredProps(h, value.props, DOMAIN value.props, <<>>).heap,
                           StoredProps(h, value.props, DOMAIN value.props, <<>>).props),
          value |-> Ref(Len(StoredProps(h, value.props, DOMAIN value.props, <<>>).heap) + 1)]

RECURSIVE Deep(_, _)
\* a value with every reference followed: the object as a reader finds it
Deep(h, value) ==
    IF IsRef(value) THEN JsObject([k \in DOMAIN h[value.n] |-> Deep(h, h[value.n][k])])
    ELSE value

\* const result = target: the merge writing into its target
ResultObjectIsTarget(h, target) == [heap |-> h, at |-> target.n]

\* const result = { ...target }: a new object with the target's own properties
ResultObject(h, target) == [heap |-> Append(h, h[target.n]), at |-> Len(h) + 1]

\* result[key], undefined when result has no such property
PropAt(h, a, key) == IF key \in DOMAIN h[a] THEN h[a][key] ELSE JsUndefined

RECURSIVE MergeOnHeap(_, _, _)
RECURSIVE MergeKeysOnHeap(_, _, _, _)
RECURSIVE MergedKey(_, _, _, _)
\* one round of the forEach of secureDeepMerge: result is at address r
MergedKey(h, r, key, sourceValue) ==
    IF ~isSafeKey(key) THEN h
    ELSE IF ~IsRef(sourceValue) THEN Write(h, r, key, sourceValue)
    ELSE IF IsRef(PropAt(h, r, key))
    THEN Write(MergeOnHeap(h, PropAt(h, r, key), sourceValue).heap, r, key,
               MergeOnHeap(h, PropAt(h, r, key), sourceValue).value)
    ELSE Write(MergeOnHeap(Append(h, <<>>), Ref(Len(h) + 1), sourceValue).heap, r, key,
               MergeOnHeap(Append(h, <<>>), Ref(Len(h) + 1), sourceValue).value)

\* the forEach over Object.keys(source), source at address s
MergeKeysOnHeap(h, r, s, keys) ==
    IF keys = {} THEN h
    ELSE MergeKeysOnHeap(MergedKey(h, r, CHOOSE k \in keys : TRUE, h[s][CHOOSE k \in keys : TRUE]),
                         r, s, keys \ {CHOOSE k \in keys : TRUE})

\* secureDeepMerge(target, source) on the store: the store afterwards and
\* the reference returned
MergeOnHeap(h, target, source) ==
    [heap  |-> IF IsRef(source)
               THEN MergeKeysOnHeap(ResultObject(h, target).heap, ResultObject(h, target).at,
                                    source.n, DOMAIN h[source.n])
               ELSE ResultObject(h, target).heap,
     value |-> Ref(ResultObject(h, target).at)]

\* the store when the module has been loaded: defaultBlogConfig and its
\* nested groups
DefaultsHeap == Stored(<<>>, defaultBlogConfig).heap

\* the address of defaultBlogConfig
DefaultsAt == Stored(<<>>, defaultBlogConfig).value

\* the objects still in use once currentConfig is about to be reassigned
WithoutOldConfig(h) == SubSeq(h, 1, Len(DefaultsHeap))

HeapCall(fn, userConfig, source, prop, value) ==
    [fn |-> fn, userConfig |-> userConfig, source |-> source, prop |-> prop, value |-> value]

InitHeap ==
    /\ now = 0
    /\ postsCache = [k \in CacheKeys |-> NoEntry]
    /\ calls = <<IdleCall>>
    /\ modules = <<>>
    /\ nextArr = 1
    /\ currentConfig = None
    /\ last = NoReturn
    /\ resp = NoResp
    /\ arg = HeapCall("none", JsUndefined, JsUndefined, "", JsUndefined)
    /\ res = DefaultsHeap

\* initBlogConfig(userConfig): the caller's literal is evaluated, then
\* currentConfig = secureDeepMerge(defaultBlogConfig, userConfig)
InitBlogConfigOnHeap(userConfig, source) ==
    /\ arg' = HeapCall("initBlogConfig", userConfig, source.value, "", JsUndefined)
    /\ res' = MergeOnHeap(source.heap, DefaultsAt, source.value).heap
    /\ currentConfig' = Some(MergeOnHeap(source.heap, DefaultsAt, source.value).value)
    /\ UNCHANGED <<now, postsCache, calls, modules, nextArr, last, resp>>

\* getBlogConfig(): installs { ...defaultBlogConfig } when there is no
\* configuration yet
GetBlogConfigOnHeap ==
    /\ arg' = HeapCall("getBlogConfig", JsUndefined, JsUndefined, "", JsUndefined)
    /\ res' = IF currentConfig = None THEN Append(res, res[DefaultsAt.n]) ELSE res
    /\ currentConfig' = IF currentConfig = None THEN Some(Ref(Len(res) + 1)) ELSE currentConfig
    /\ UNCHANGED <<now, postsCache, calls, modules, nextArr, last, resp>>

\* blogConfig[prop] = value: config[prop] = value on what getBlogConfig()
\* returns
ProxySetOnHeap(prop, value) ==
    /\ arg' = HeapCall("blogConfig.set", JsUndefined, JsUndefined, prop, value)
    /\ res' = IF currentConfig = None
              THEN Write(Append(res, res[DefaultsAt.n]), Len(res) + 1, prop, value)
              ELSE Write(res, The(currentConfig).n, prop, value)
    /\ currentConfig' = IF currentConfig = None THEN Some(Ref(Len(res) + 1)) ELSE currentConfig
    /\ UNCHANGED <<now, postsCache, calls, modules, nextArr, last, resp>>

NextHeap ==
    \/ \E userConfig \in UserConfigs :
          InitBlogConfigOnHeap(userConfig,
                               Stored(WithoutOldConfig(res),
                                      IF userConfig.t = "undefined" THEN JsObject(<<>>) ELSE userConfig))
    \/ GetBlogConfigOnHeap
    \/ \E prop \in ProxyProps, value \in ProxyValues : ProxySetOnHeap(prop, value)

SpecHeap == InitHeap /\ [][NextHeap]_vars

\* C25: defaultBlogConfig and its nested groups are never written to, so
\* that initBlogConfig({}) returns the shipped defaults at every depth
\* whatever calls and top-level proxy assignments came before; and the
\* merge of initBlogConfig leaves the caller's overlay as it was passed.
C25_DefaultsNeverModified ==
    /\ WithoutOldConfig(res) = DefaultsHeap
    /\ Deep(MergeOnHeap(Append(res, <<>>), DefaultsAt, Ref(Len(res) + 1)).heap,
            MergeOnHeap(Append(res, <<>>), DefaultsAt, Ref(Len(res) + 1)).value) = defaultBlogConfig
    /\ (arg.fn = "initBlogConfig" /\ arg.userConfig.t = "object") =>
          Deep(res, arg.source) = arg.userConfig

\* a configuration made with an overlay inside a nested group has had a
\* top-level property assigned through the proxy
C25_Witness ==
    /\ arg.fn = "blogConfig.set" /\ arg.prop = "name"
    /\ currentConfig /= None
    /\ Deep(res, The(currentConfig)) =
          SetProp(initBlogConfig(ObjectOf(<< <<"pagination",
                                               ObjectOf(<< <<"postsPerBatch", JsNumber(1)>> >>)>> >>)),
                  "name", JsString("Set"))

\* ------------------------------------------------------------------------
\* Re-initialisation of the configuration while posts are cached
\* ------------------------------------------------------------------------

\* the content directory a second discovery function finds
OtherDirectory == <<FileB>>

\* options.getBlogPostFiles of an initBlogConfig call: none, or a function
\* that discovers the given directory
DiscoveryOptions == {None, Some(<<FileA, FileNoDate, FileB>>), Some(OtherDirectory)}

ReinitConfigs == {JsObject(<<>>), ObjectOf(<< <<"name", JsString("Mine")>> >>)}

\* if (options.getBlogPostFiles) customFunctions.getBlogPostFiles = ...
Registered(current, getBlogPostFilesOption) ==
    IF IsSome(getBlogPostFilesOption) THEN The(getBlogPostFilesOption) ELSE current

\* initBlogConfig clearing the post cache
CacheOnInitCleared(cache) == [k \in CacheKeys |-> NoEntry]

\* the post cache across initBlogConfig, which has no access to it
CacheOnInit(cache) == cache

ReinitCall(userConfig, getBlogPostFilesOption) ==
    [fn |-> "initBlogConfig", userConfig |-> userConfig, files |-> getBlogPostFilesOption]

InitReinit == InitWith(CacheModuleChoices)

\* initBlogConfig(userConfig, { getBlogPostFiles }) between getAllPosts calls
Reinitialise(userConfig, getBlogPostFilesOption) ==
    /\ \A i \in DOMAIN calls : calls[i].pc = "idle"
    /\ arg' = ReinitCall(userConfig, getBlogPostFilesOption)
    /\ currentConfig' = Some(initBlogConfig(userConfig))
    /\ modules' = Registered(modules, getBlogPostFilesOption)
    /\ postsCache' = CacheOnInit(postsCache)
    /\ last' = NoReturn
    /\ UNCHANGED <<now, calls, nextArr, resp, res>>

NextReinit ==
    \/ \E options \in StormOptions : GetAllPosts(options)
    \/ \E i \in 1..MaxInflight : Settled(i)
    \/ \E userConfig \in ReinitConfigs, files \in DiscoveryOptions : Reinitialise(userConfig, files)
    \/ Tick

SpecReinit == InitReinit /\ [][NextReinit]_vars

\* C27: initBlogConfig leaves the post cache as it is and, called without
\* options.getBlogPostFiles, leaves the registered discovery function in
\* force; a getAllPosts call that finds a fresh entry returns the cached
\* array without discovery, whatever discovery function is registered by
\* then.
C27_InitLeavesPostCache ==
    [][/\ (last'.op = "none" /\ now' = now /\ calls' = calls) =>
             /\ postsCache' = postsCache
             /\ nextArr' = nextArr
             /\ arg'.files = None => modules' = modules
       /\ (last'.op = "getAllPosts" /\ calls' = calls
             /\ IsFresh(postsCache[cacheKey(last'.triple)], now)) =>
             /\ last'.ok /\ last'.fromCache /\ ~last'.discovery
             /\ last'.arr = postsCache[cacheKey(last'.triple)].arr
             /\ postsCache' = postsCache]_vars

\* a list cached under the first discovery function is returned after a
\* re-initialisation that registered another one
C27_Witness ==
    /\ last.op = "getAllPosts" /\ last.fromCache
    /\ arg /= <<>> /\ arg.files = Some(OtherDirectory)
    /\ modules = OtherDirectory
    /\ postsCache[cacheKey(last.triple)].posts /=
          LoadPosts(modules, last.triple.lang, last.triple.includeContent,
                    last.triple.includeLocalizedVersions)

\* ------------------------------------------------------------------------
\* Category membership: the filter against getPostCategories
\* ------------------------------------------------------------------------

\* C28: every post filterPostsByCategory returns for a slug has that slug
\* among the slugs of getPostCategories(post).
C28_FilterAgreesWithGetPostCategories ==
    res.fn = "filterPostsByCategory" =>
        \A i \in DOMAIN res.out : SomeSlugIs(getPostCategories(res.out[i]), arg.slug)

\* ------------------------------------------------------------------------
\* Prerender entries: generateBlogEntries and the routes they name
\* ------------------------------------------------------------------------

\* a BlogEntry { slug, lang }, lang left out when there is one language
BlogEntry(slug, lang) == [slug |-> slug, lang |-> lang]

\* languages[0] || 'en'
BaseLocale(languages) ==
    IF languages /= <<>> /\ languages[1] /= "" THEN languages[1] ELSE "en"

\* `${year}/${month}/${postSlug}` from the first three parts of a url path
FullSlug(pathParts) == pathParts[1] \o <<"/">> \o pathParts[2] \o <<"/">> \o pathParts[3]

\* the entries the first forEach of generateBlogEntries pushes for one post
\* whose url path has the given non-empty parts
PostEntriesFor(post, pathParts, languages) ==
    IF post.urlPath = <<>> \/ Len(pathParts) < 3 THEN <<>>
    ELSE IF post.lang /= "" /\ post.lang /= BaseLocale(languages) /\ post.lang \in Range(languages)
    THEN <<BlogEntry(FullSlug(pathParts), Some(post.lang))>>
    ELSE IF Len(languages) > 1
    THEN [i \in DOMAIN languages |-> BlogEntry(FullSlug(pathParts), Some(languages[i]))]
    ELSE <<BlogEntry(FullSlug(pathParts), None)>>

RECURSIVE PostEntries(_, _)
PostEntries(posts, languages) ==
    IF posts = <<>> THEN <<>>
    ELSE PostEntriesFor(Head(posts), NonEmptyParts(SplitSlash(Head(posts).urlPath)), languages)
         \o PostEntries(Tail(posts), languages)

\* the elements of a Set in insertion order: first occurrences only
RECURSIVE FirstOccurrences(_)
FirstOccurrences(items) ==
    IF items = <<>> THEN <<>>
    ELSE <<Head(items)>> \o FirstOccurrences(SelectSeq(Tail(items), LAMBDA x : x /= Head(items)))

RECURSIVE TermEntries(_, _, _)
\* allCategories.forEach(slug => languages.forEach(lang => push(...)))
TermEntries(prefix, slugs, languages) ==
    IF slugs = <<>> THEN <<>>
    ELSE [i \in DOMAIN languages |-> BlogEntry(prefix \o Head(slugs), Some(languages[i]))]
         \o TermEntries(prefix, Tail(slugs), languages)

\* the slugs added to allCategories / allTags, in insertion order
TermSlugsOf(posts, kind) ==
    FirstOccurrences([i \in DOMAIN FlatTerms(posts, kind) |-> slugify(FlatTerms(posts, kind)[i])])

\* generateBlogEntries(languages) once getAllPosts({ includeLocalizedVersions:
\* true }) has resolved with allPostsData
generateBlogEntries(languages, allPostsData) ==
    PostEntries(allPostsData, languages)
    \o TermEntries(CategoryPrefix, TermSlugsOf(allPostsData, "category"), languages)
    \o TermEntries(TagPrefix, TermSlugsOf(allPostsData, "tag"), languages)

\* a file whose name ends in '.js' before the '.md'
FileScript ==
    PostFile(<<"b", "/", "x", ".", "j", "s", ".", "m", "d">>,
             [Meta(Some(<<"X">>), Some(DateOf(2024, 3, 15)), None, None, None, None)
                 EXCEPT !.readTime = Some(1)],
             <<"x">>)

\* a file whose frontmatter slug contains a '/'
FileNested ==
    PostFile(<<"b", "/", "n", ".", "m", "d">>,
             [Meta(Some(<<"N">>), Some(DateOf(2024, 3, 15)), Some(<<"n", "/", "m">>), None, None, None)
                 EXCEPT !.readTime = Some(1)],
             <<"n">>)

\* a file with a category that slugify reduces to ''
FilePunct ==
    PostFile(<<"b", "/", "q", ".", "m", "d">>,
             [Meta(Some(<<"Q">>), Some(DateOf(2024, 3, 15)), None, Some(<< <<"!">> >>), None, None)
                 EXCEPT !.readTime = Some(1)],
             <<"q">>)

\* the content directories entries are generated for
EntryDirectories ==
    {<<FileA, FileB>>, <<FileLocalized>>, <<FileScript>>, <<FileNested>>, <<FilePunct>>}

\* the languages option of createBlogSlugHandler
EntryLanguages == {<<"en">>, <<"en", "de">>, <<"de", "en">>}

NoEntries == [fn |-> "none", languages |-> <<>>, entries |-> <<>>]

InitEntries ==
    /\ now = 0
    /\ postsCache = [k \in CacheKeys |-> NoEntry]
    /\ calls = <<IdleCall>>
    /\ modules \in EntryDirectories
    /\ nextArr = 1
    /\ currentConfig = None
    /\ last = NoReturn
    /\ resp = NoResp
    /\ arg = Request("none", None, None, None, FALSE)
    /\ res = NoEntries

EntriesTriple == Defaulted(OptionsOf(None, None, Some(TRUE)))

\* createBlogSlugHandler({ languages }).entries(), its getAllPosts call
\* included, at a time when no other call is awaiting its loaders
GenerateBlogEntries(languages) ==
    /\ \A i \in DOMAIN calls : calls[i].pc = "idle"
    /\ arg' = Request("entries", None, None, None, FALSE)
    /\ last' = NoReturn
    /\ UNCHANGED <<now, calls, resp, currentConfig>>
    /\ IF IsFresh(postsCache[cacheKey(EntriesTriple)], now)
       THEN /\ res' = [fn |-> "generateBlogEntries", languages |-> languages,
                       entries |-> generateBlogEntries(languages, postsCache[cacheKey(EntriesTriple)].posts)]
            /\ UNCHANGED <<postsCache, nextArr, modules>>
       ELSE /\ nextArr <= MaxArrays
            /\ modules' = [k \in DOMAIN modules |-> ProcessedModule(modules[k], FALSE)]
            /\ postsCache' = [postsCache EXCEPT ![cacheKey(EntriesTriple)] =
                                 StoredEntry(@, LoadPosts(modules, "en", FALSE, TRUE), nextArr, now,
                                             EntriesTriple)]
            /\ nextArr' = nextArr + 1
            /\ res' = [fn |-> "generateBlogEntries", languages |-> languages,
                       entries |-> generateBlogEntries(languages, LoadPosts(modules, "en", FALSE, TRUE))]

\* the page of entry i is requested from the slug handler
EntryRequest(i, paraglideLocale) ==
    /\ FreeSlots /= {}
    /\ SlugLoad(Some(res.entries[i].slug), paraglideLocale, None)

NextEntries ==
    \/ \E languages \in EntryLanguages : GenerateBlogEntries(languages)
    \/ \E i \in DOMAIN res.entries, paraglideLocale \in Locales : EntryRequest(i, paraglideLocale)
    \/ \E i \in DOMAIN calls : Settled(i)

SpecEntries == InitEntries /\ [][NextEntries]_vars

\* what an entry slug names
EntryKind(slug) ==
    IF startsWith(slug, CategoryPrefix) THEN "category"
    ELSE IF startsWith(slug, TagPrefix) THEN "tag"
    ELSE "post"

\* C29: the slug handler, asked for the slug of a prerender entry, answers
\* with the page of the post, category or tag the entry names, unless the
\* post pipeline itself failed: never with a 404.
C29_EntriesAreRoutable ==
    (/\ arg.handler = "slug"
     /\ resp.caller.via = "slug" /\ resp.caller.param = arg.slug
     /\ resp.settled \in {"resolved", "rejected"}
     /\ ~(resp.settled = "rejected" /\ resp.status \in {0, 500})) =>
        /\ resp.settled = "resolved"
        /\ resp.page.pageType = EntryKind(The(arg.slug))
        /\ resp.page.pageType = "post" => resp.page.post[1].urlPath = <<"/">> \o The(arg.slug)

\* C30: generateBlogEntries returns no two entries with the same slug and
\* the same lang.
C30_EntriesAreDistinct ==
    res.fn = "generateBlogEntries" =>
        \A i, j \in DOMAIN res.entries : i /= j => res.entries[i] /= res.entries[j]

====
